---- MODULE Spec2Model ----
(***************************************************************************)
(* Flight-update coordination and metadata crawling of flightradar.        *)
(*                                                                         *)
(*   SpecCB     one CircuitBreakerRegistry driven through its public API   *)
(*              (is_source_available / record_success / record_failure)    *)
(*              under a clock.                                             *)
(*   SpecCrawl  AirplaneCrawler.crawl_sources over the persisted           *)
(*              processing queue, the metadata store and the breakers,     *)
(*              under a clock, with the two built-in sources.              *)
(*   SpecAdmin  the same cycles with set_source_enabled called between     *)
(*              and during them.                                           *)
(*   SpecRetry  the same cycles when no source ever has data.              *)
(*   SpecMerge  the cycles with three sources configured.                  *)
(*   SpecBatch  the cycles over a queue of several addresses.              *)
(*   SpecQueue  AircraftProcessingRepository driven call by call under a   *)
(*              clock.                                                     *)
(*   SpecUpd    scheduler threads calling FlightUpdaterCoordinator.update. *)
(*   SpecNotify one scheduler thread running update cycles while SSE       *)
(*              callbacks are registered, unregistered and fail.           *)
(*   SpecClassify  schedule_aircraft_for_processing over every stored      *)
(*              record, pair of staleness thresholds and time.             *)
(*   SpecSplit  MongoDBRepository.split_flights applied to position lists. *)
(*   SpecActivity  the crawler's recent-activity log, written and read.    *)
(*   SpecRegistry  the registry's API called for two sources, under a      *)
(*              clock.                                                     *)
(*   SpecGuarded   one breaker whose outcomes are recorded only after an   *)
(*              admitting is_available, as the crawler does.               *)
(*   SpecRequeue   the update cycle's hand-off interleaved with crawl      *)
(*              cycles,                                                    *)
(*              for aircraft no source knows.                              *)
(*   SpecStream    clients of the live positions stream and the position   *)
(*              broadcasts they receive.                                   *)
(*   SpecFanout    update cycles with subscribers registering during the   *)
(*              broadcast and get_cached_flights keeping any flights.      *)
(*                                                                         *)
(* Time is a discrete clock `now`; every duration of the configuration is  *)
(* expressed in ticks of that clock.                                       *)
(***************************************************************************)
EXTENDS Integers, Sequences, FiniteSets, TLC

\* ---------------------------------------------------------------- bounds
MaxTime == 6
MaxFailures == 5
MaxSuccesses == 2
MaxProbes == 2
MaxTripN == 5
NThreads == 2
MaxSkips == 2
MaxAdds == 3
MaxCrawls == 2
MaxQueries == 2
MaxQueued == 1
MaxHours == 2
MaxInserts == 2
MaxNotFound == 2
MaxDays == 2
MaxPositions == 3
MaxActivities == 52
\* messages waiting in one client's queue
MaxQueueLen == 3
\* SpecRegistry: clock ticks, and recorded outcomes of each kind per source
MaxRegTime == 3
MaxRegCalls == 1

\* ------------------------------------------------------------- constants
None == "none"
CLOSED == "closed"
OPEN == "open"
HALF_OPEN == "half_open"
CircuitState == {CLOSED, OPEN, HALF_OPEN}

\* AirplaneCrawler.sources, in list (priority) order
SourceOrder == <<"A", "B", "C">>
Sources == {SourceOrder[i] : i \in 1..Len(SourceOrder)}
\* the breakers SpecCB drives
CBSources == {"A"}

\* mode-S addresses as they arrive, and their upper-case form (the queue key)
RawAddrs == {"ab1", "AB1", "AB2"}
Upper(x) == IF x = "ab1" THEN "AB1" ELSE x
Addrs == {Upper(x) : x \in RawAddrs}

\* scheduler threads that run FlightUpdaterCoordinator.update
Threads == 1..NThreads
NoOwner == 0

VARIABLES
    now,          \* time.time() / datetime.now()
    cfg,          \* configuration values read at construction
    breakers,     \* CircuitBreakerRegistry._breakers
    cb_call,      \* the last call made on the registry and what it returned
    probes,       \* per source: requests admitted since the breaker last went half-open
    queue,        \* collection aircraft_to_process, keyed by modeS
    next_id,      \* insertion order (_id) of the next queue document
    q_call,       \* the last call made on the processing repository, and its result
    aircraft_db,  \* collection of aircraft metadata records, keyed by modeS
    upc,          \* per thread: where it is in update()
    update_lock,  \* FlightUpdaterCoordinator._update_lock: its owner, or NoOwner
    is_updating,  \* FlightUpdaterCoordinator.is_updating
    skip_log,     \* number of "Update already in progress" log lines
    upd_positions,\* per thread: the local `positions` of its cycle
    flights,      \* FlightManager: addresses that have a flight record
    pos_cache,    \* PositionManager.flight_lastpos_map
    pm_changes,   \* PositionManager: flights whose position changed in the cycle
    pm_category_changes, \* PositionManager: flight -> category changed in the cycle
    pm_callsign_changes, \* PositionManager: flight -> callsign changed in the cycle
    upd_error,    \* the error thrown in the update cycle last started, if any
    sse_callbacks,\* SSENotifier._callbacks
    sse_out,      \* what the notifier handed on since the update cycle last started
    active_connections, \* SSEConnectionManager.active_connections: client -> its queue
    split_call,   \* the last call of split_flights and what it returned
    crawl_pc,     \* crawl_sources: "idle", or "loop" inside the for loop
    crawl_batch,  \* crawl_sources: the part of aircraft_to_process still to do
    crawl_count,  \* number of addresses crawled so far
    last_crawl,   \* what the last crawled address met and how it ended
    source_enabled, \* AirplaneCrawler._source_enabled
    activity_log, \* AirplaneCrawler._activity_log, newest first
    saved_logs,   \* CrawlerLogRepository: the saved query logs
    act_call      \* the last call of get_recent_activity and what it returned

cbvars == <<breakers, cb_call, probes>>
storevars == <<queue, next_id, aircraft_db>>
updvars == <<upc, update_lock, is_updating, skip_log, upd_positions,
             flights, pos_cache, pm_changes, pm_category_changes,
             pm_callsign_changes, upd_error>>
ssevars == <<sse_callbacks, sse_out, active_connections>>
crawlvars == <<crawl_pc, crawl_batch, crawl_count, last_crawl, source_enabled,
               activity_log, saved_logs, act_call>>
vars == <<now, cfg, q_call, split_call, ssevars, cbvars, storevars, updvars, crawlvars>>

Min(a, b) == IF a <= b THEN a ELSE b

\* --------------------------------------------------------- CircuitBreaker
NewBreaker ==
    [state |-> CLOSED, consecutive_failures |-> 0, last_failure_time |-> 0,
     total_failures |-> 0, total_successes |-> 0, trip_count |-> 0]

get_current_reset_seconds_uncapped(b) ==
    IF b.trip_count = 0
    THEN cfg.base_reset_seconds
    ELSE cfg.base_reset_seconds * (2 ^ (b.trip_count - 1))

get_current_reset_seconds(b) ==
    IF b.trip_count = 0
    THEN cfg.base_reset_seconds
    ELSE Min(cfg.base_reset_seconds * (2 ^ (b.trip_count - 1)), cfg.max_reset_seconds)

\* the test of is_available on an OPEN breaker
backoff_elapsed_strict(b) ==
    now - b.last_failure_time > get_current_reset_seconds(b)

backoff_elapsed(b) ==
    now - b.last_failure_time >= get_current_reset_seconds(b)

\* the variant that lets every request through
is_available_ret_always(b) == TRUE

\* is_available: the value returned
is_available_ret(b) ==
    IF b.state = CLOSED THEN TRUE
    ELSE IF b.state = OPEN
         THEN backoff_elapsed(b)
         ELSE TRUE

\* is_available: the breaker after the call
is_available_next(b) ==
    IF b.state = OPEN /\ backoff_elapsed(b)
    THEN [b EXCEPT !.state = HALF_OPEN]
    ELSE b

record_success_keeps_trips(b) ==
    [b EXCEPT !.total_successes = @ + 1,
              !.state = CLOSED,
              !.consecutive_failures = 0]

record_success(b) ==
    [b EXCEPT !.total_successes = @ + 1,
              !.trip_count = IF b.state = HALF_OPEN THEN 0 ELSE @,
              !.state = CLOSED,
              !.consecutive_failures = 0]

\* the variant that books a failed request as a success
record_failure_as_success(b) == record_success(b)

record_failure(b) ==
    LET b1 == [b EXCEPT !.total_failures = @ + 1,
                        !.consecutive_failures = @ + 1,
                        !.last_failure_time = now]
    IN  IF b1.state = HALF_OPEN
        THEN [b1 EXCEPT !.trip_count = @ + 1, !.state = OPEN]
        ELSE IF b1.consecutive_failures >= cfg.failure_threshold
             THEN [b1 EXCEPT !.trip_count = IF b1.state # OPEN THEN @ + 1 ELSE @,
                             !.state = OPEN]
             ELSE b1

\* ------------------------------------------- AircraftProcessingRepository
NoTime == -1
FT_NONE == "none"
FT_NOT_FOUND == "not_found"
FT_SERVICE_ERROR == "service_error"

MapPut(f, k, v) == [x \in (DOMAIN f) \cup {k} |-> IF x = k THEN v ELSE f[x]]
MapDel(f, k) == [x \in (DOMAIN f) \ {k} |-> f[x]]

NewEntry(id, reason) ==
    [query_attempts |-> 0, last_attempt_time |-> NoTime, failure_type |-> FT_NONE,
     crawl_reason |-> reason, last_error |-> None, id |-> id]

aircraft_exists(q, icao24) == Upper(icao24) \in DOMAIN q

\* the variant that writes the fresh document over an existing one (an upsert)
add_aircraft_replaces(q, id, icao24, reason) ==
    MapPut(q, Upper(icao24), NewEntry(id, reason))

\* insert_one; a duplicate key (unique index on modeS) leaves the collection as it is
add_aircraft(q, id, icao24, reason) ==
    IF Upper(icao24) \in DOMAIN q THEN q
    ELSE MapPut(q, Upper(icao24), NewEntry(id, reason))

get_crawl_reason(q, icao24) ==
    IF Upper(icao24) \in DOMAIN q THEN q[Upper(icao24)].crawl_reason ELSE None

\* datetime.now() - timedelta(hours=service_error_reset_hours)
reset_threshold == now - cfg.service_error_reset_hours

\* the variant whose not-found clause has no cap on the attempts
Eligible_without_cap(e) ==
    \/ e.query_attempts = 0
    \/ e.failure_type = FT_NOT_FOUND
    \/ /\ e.failure_type = FT_SERVICE_ERROR
       /\ e.last_attempt_time # NoTime
       /\ e.last_attempt_time < reset_threshold
    \/ e.failure_type = FT_NONE /\ e.query_attempts < cfg.max_attempts


\* the $or filter of get_aircraft_for_processing
Eligible(e) ==
    \/ e.query_attempts = 0
    \/ e.failure_type = FT_NOT_FOUND /\ e.query_attempts < cfg.max_attempts
    \/ /\ e.failure_type = FT_SERVICE_ERROR
       /\ e.last_attempt_time # NoTime
       /\ e.last_attempt_time < reset_threshold
    \/ e.failure_type = FT_NONE /\ e.query_attempts < cfg.max_attempts

\* sort key (query_attempts, last_attempt_time, _id), ascending; null sorts first
Before(e, f) ==
    \/ e.query_attempts < f.query_attempts
    \/ /\ e.query_attempts = f.query_attempts
       /\ \/ e.last_attempt_time < f.last_attempt_time
          \/ e.last_attempt_time = f.last_attempt_time /\ e.id < f.id

RECURSIVE SortedBy(_, _)
SortedBy(q, S) ==
    IF S = {} THEN <<>>
    ELSE LET first == CHOOSE a \in S : \A b \in S \ {a} : Before(q[a], q[b])
         IN  <<first>> \o SortedBy(q, S \ {first})

Take(seq, n) == SubSeq(seq, 1, Min(n, Len(seq)))

get_aircraft_for_processing(q, limit) ==
    Take(SortedBy(q, {a \in DOMAIN q : Eligible(q[a])}), limit)

\* the variant that $set-s the counter to 1 instead of $inc-ing it
record_not_found_sets_attempts(q, icao24) ==
    LET a == Upper(icao24)
    IN  IF a \in DOMAIN q
        THEN [q EXCEPT ![a].query_attempts = 1,
                       ![a].failure_type = FT_NOT_FOUND,
                       ![a].last_attempt_time = now]
        ELSE q

record_not_found(q, icao24) ==
    LET a == Upper(icao24)
    IN  IF a \in DOMAIN q
        THEN [q EXCEPT ![a].query_attempts = @ + 1,
                       ![a].failure_type = FT_NOT_FOUND,
                       ![a].last_attempt_time = now]
        ELSE q

\* the variant that counts a service error as an attempt
record_service_error_counts_attempt(q, icao24, error_message) ==
    LET a == Upper(icao24)
    IN  IF a \in DOMAIN q
        THEN [q EXCEPT ![a].failure_type = FT_SERVICE_ERROR,
                       ![a].query_attempts = @ + 1,
                       ![a].last_attempt_time = now,
                       ![a].last_error = IF error_message # None THEN error_message ELSE @]
        ELSE q

record_service_error(q, icao24, error_message) ==
    LET a == Upper(icao24)
    IN  IF a \in DOMAIN q
        THEN [q EXCEPT ![a].failure_type = FT_SERVICE_ERROR,
                       ![a].last_attempt_time = now,
                       ![a].last_error = IF error_message # None THEN error_message ELSE @]
        ELSE q

\* the variant whose filter has no cooldown clause
reset_service_error_attempts_no_cooldown(q) ==
    [a \in DOMAIN q |->
        IF q[a].failure_type = FT_SERVICE_ERROR
        THEN [q[a] EXCEPT !.query_attempts = 0, !.failure_type = FT_NONE]
        ELSE q[a]]

reset_service_error_attempts(q) ==
    [a \in DOMAIN q |->
        IF /\ q[a].failure_type = FT_SERVICE_ERROR
           /\ q[a].last_attempt_time # NoTime
           /\ q[a].last_attempt_time < reset_threshold
        THEN [q[a] EXCEPT !.query_attempts = 0, !.failure_type = FT_NONE]
        ELSE q[a]]

\* modified_count of the update_many of reset_service_error_attempts
reset_service_error_attempts_count(q) ==
    Cardinality({a \in DOMAIN q : reset_service_error_attempts(q)[a] # q[a]})

remove_aircraft(q, icao24) == MapDel(q, Upper(icao24))

\* the variant that purges only above the cap ($gt for $gte)
cleanup_failed_aircraft_above_cap(q) ==
    [a \in {x \in DOMAIN q :
              ~(q[x].failure_type = FT_NOT_FOUND /\ q[x].query_attempts > cfg.max_attempts)}
       |-> q[a]]

cleanup_failed_aircraft(q) ==
    [a \in {x \in DOMAIN q :
              ~(q[x].failure_type = FT_NOT_FOUND /\ q[x].query_attempts >= cfg.max_attempts)}
       |-> q[a]]

\* deleted_count of the delete_many of cleanup_failed_aircraft
cleanup_failed_aircraft_count(q) ==
    Cardinality(DOMAIN q \ DOMAIN cleanup_failed_aircraft(q))

\* ------------------------------------------------ IncompleteAircraftManager
Fields == {"reg", "type_code", "type_desc", "operator"}

\* _has_missing_critical_fields: registeredOwners, type, icaoTypeCode, registration;
\* doc.fields are the fields that have a value, doc.blank those among them whose
\* value is a string of blanks
has_missing_critical_fields(doc) ==
    \E f \in Fields : f \notin doc.fields \/ f \in doc.blank

\* the variant that skips a record without a modification timestamp
classify_needs_timestamp(q, db, icao24, raised) ==
    LET a == Upper(icao24)
    IN  IF aircraft_exists(q, icao24) THEN None
        ELSE IF raised THEN "unknown"
        ELSE IF a \notin DOMAIN db THEN "not_in_db"
        ELSE IF db[a].last_modified = NoTime THEN None
        ELSE IF /\ has_missing_critical_fields(db[a])
                /\ db[a].last_modified < now - cfg.incomplete_staleness_days
             THEN "incomplete_stale"
        ELSE IF db[a].last_modified < now - cfg.staleness_days THEN "stale"
        ELSE None

\* the reason _classify_unknown_aircraft gives one address, None when it is skipped;
\* raised: looking the record up threw
classify(q, db, icao24, raised) ==
    LET a == Upper(icao24)
    IN  IF aircraft_exists(q, icao24) THEN None
        ELSE IF raised THEN "unknown"
        ELSE IF a \notin DOMAIN db THEN "not_in_db"
        ELSE IF db[a].last_modified = NoTime THEN "no_timestamp"
        ELSE IF /\ has_missing_critical_fields(db[a])
                /\ db[a].last_modified < now - cfg.incomplete_staleness_days
             THEN "incomplete_stale"
        ELSE IF db[a].last_modified < now - cfg.staleness_days THEN "stale"
        ELSE None

RECURSIVE AddAll_aborts(_, _, _, _, _, _, _)
\* the variant in which an error ends the loop over the addresses
AddAll_aborts(q0, q, id, db, order, bad, i) ==
    IF i > Len(order) \/ order[i] \in bad THEN [q |-> q, id |-> id]
    ELSE LET x == order[i]
             r == classify(q0, db, x, FALSE)
         IN  IF r = None
             THEN AddAll_aborts(q0, q, id, db, order, bad, i + 1)
             ELSE AddAll_aborts(q0, add_aircraft(q, id, x, r),
                                IF Upper(x) \in DOMAIN q THEN id ELSE id + 1,
                                db, order, bad, i + 1)

RECURSIVE AddAll(_, _, _, _, _, _, _)
\* schedule_aircraft_for_processing over the addresses in iteration order `order`:
\* each one classified against the queue q0 found at the call, then added
AddAll(q0, q, id, db, order, bad, i) ==
    IF i > Len(order) THEN [q |-> q, id |-> id]
    ELSE LET x == order[i]
             r == classify(q0, db, x, x \in bad)
         IN  IF r = None
             THEN AddAll(q0, q, id, db, order, bad, i + 1)
             ELSE AddAll(q0, add_aircraft(q, id, x, r),
                         IF Upper(x) \in DOMAIN q THEN id ELSE id + 1,
                         db, order, bad, i + 1)

Orders(S) == {o \in [1..Cardinality(S) -> S] : \A i, j \in 1..Cardinality(S) : o[i] = o[j] => i = j}

\* ------------------------------------------------------------ SpecCB
NoCall == [op |-> None, src |-> None, ret |-> FALSE, at |-> 0, from |-> None, wait |-> 0]

\* what a call on source s leaves in cb_call
Call(op, s, ret) ==
    [op |-> op, src |-> s, ret |-> ret, at |-> now, from |-> breakers[s].state,
     wait |-> IF op = "is_available" /\ breakers[s].state = OPEN
              THEN get_current_reset_seconds(breakers[s]) ELSE 0]

\* Config / constructor defaults, in clock ticks
DefaultConfig ==
    [failure_threshold |-> 2, base_reset_seconds |-> 1, max_reset_seconds |-> 2,
     max_attempts |-> 2, service_error_reset_hours |-> 2, batch_size |-> 2,
     staleness_days |-> 4, incomplete_staleness_days |-> 2, military_only |-> FALSE,
     sources |-> SourceOrder]

CBConfigs ==
    {[DefaultConfig EXCEPT !.failure_threshold = t, !.base_reset_seconds = b,
                           !.max_reset_seconds = m] :
        t \in {1, 2}, b \in {1, 2}, m \in {2, 3}}

EmptyMap == [a \in {} |-> 0]

\* no call made on the processing repository yet
NoQCall ==
    [op |-> None, icao24 |-> None, ret |-> <<>>, limit |-> 0, count |-> 0, bad |-> {}]

InitStore ==
    /\ queue = EmptyMap
    /\ next_id = 1
    /\ aircraft_db = EmptyMap
    /\ q_call = NoQCall

\* no error thrown in the update cycle
NoError == [stage |-> None, type |-> None, caught |-> FALSE, log |-> None]

\* one topic of sse_out: how often its payload was handed on, the flights in
\* the payload, the callbacks it was handed to, and those of them that failed
NoPub == [n |-> 0, flights |-> {}, invoked |-> {}, failed |-> {}]
NoPublications == [positions |-> NoPub, categories |-> NoPub, callsigns |-> NoPub]

\* split_flights not called yet
NoSplit == [done |-> FALSE, positions |-> <<>>, flights |-> <<>>]

InitCoordinator ==
    /\ upc = [t \in Threads |-> "idle"]
    /\ update_lock = NoOwner
    /\ is_updating = FALSE
    /\ skip_log = 0
    /\ upd_positions = [t \in Threads |-> EmptyMap]
    /\ flights = {}
    /\ pos_cache = EmptyMap
    /\ pm_changes = {}
    /\ pm_category_changes = EmptyMap
    /\ pm_callsign_changes = EmptyMap
    /\ upd_error = NoError
    /\ sse_callbacks = {}
    /\ sse_out = NoPublications
    /\ active_connections = EmptyMap

NoAircraft == [present |-> FALSE, fields |-> {}, source |-> <<>>]

NoCrawl ==
    [icao24 |-> None, at |-> 0, logs |-> <<>>, aircraft |-> NoAircraft,
     insert |-> None, status |-> None]

\* get_recent_activity not called yet
NoActCall == [done |-> FALSE, limit |-> 0, ret |-> <<>>]

InitCrawler ==
    /\ crawl_pc = "idle"
    /\ crawl_batch = <<>>
    /\ crawl_count = 0
    /\ last_crawl = NoCrawl
    /\ source_enabled = [s \in Sources |-> TRUE]
    /\ activity_log = <<>>
    /\ saved_logs = <<>>
    /\ act_call = NoActCall

InitBreakers ==
    /\ breakers = [s \in Sources |-> NewBreaker]
    /\ cb_call = NoCall
    /\ probes = [s \in Sources |-> 0]

InitCB ==
    /\ now = 0
    /\ cfg \in CBConfigs
    /\ InitBreakers
    /\ InitStore
    /\ InitCoordinator
    /\ split_call = NoSplit
    /\ InitCrawler

Tick ==
    /\ now < MaxTime
    /\ now' = now + 1
    /\ UNCHANGED <<cfg, q_call, split_call, ssevars, cbvars, storevars, updvars, crawlvars>>

CBIsAvailable(s) ==
    /\ probes[s] < MaxProbes
    /\ breakers' = [breakers EXCEPT ![s] = is_available_next(@)]
    /\ cb_call' = Call("is_available", s, is_available_ret(breakers[s]))
    /\ probes' = [probes EXCEPT ![s] =
                    IF breakers'[s].state = HALF_OPEN THEN @ + 1 ELSE 0]
    /\ UNCHANGED <<now, cfg, q_call, split_call, ssevars, storevars, updvars, crawlvars>>

CBRecordSuccess(s) ==
    /\ breakers[s].total_successes < MaxSuccesses
    /\ breakers' = [breakers EXCEPT ![s] = record_success(@)]
    /\ cb_call' = Call("record_success", s, FALSE)
    /\ probes' = [probes EXCEPT ![s] = 0]
    /\ UNCHANGED <<now, cfg, q_call, split_call, ssevars, storevars, updvars, crawlvars>>

\* record_failure on a registry that keeps one breaker for all the sources
CBRecordFailure_shared(s) ==
    /\ breakers[s].total_failures < MaxFailures
    /\ breakers' = [x \in DOMAIN breakers |-> record_failure(breakers[s])]
    /\ cb_call' = Call("record_failure", s, FALSE)
    /\ probes' = [probes EXCEPT ![s] = 0]
    /\ UNCHANGED <<now, cfg, q_call, split_call, ssevars, storevars, updvars, crawlvars>>

CBRecordFailure(s) ==
    /\ breakers[s].total_failures < MaxFailures
    /\ breakers' = [breakers EXCEPT ![s] = record_failure(@)]
    /\ cb_call' = Call("record_failure", s, FALSE)
    /\ probes' = [probes EXCEPT ![s] = 0]
    /\ UNCHANGED <<now, cfg, q_call, split_call, ssevars, storevars, updvars, crawlvars>>

NextCB ==
    \/ Tick
    \/ \E s \in CBSources : CBIsAvailable(s)
    \/ \E s \in CBSources : CBRecordSuccess(s)
    \/ \E s \in CBSources : CBRecordFailure(s)

SpecCB == InitCB /\ [][NextCB]_vars

\* ------------------------------------------ CircuitBreakerRegistry, two sources
\* the breakers SpecRegistry drives
RegSources == {"A", "B"}

RegConfigs == {[DefaultConfig EXCEPT !.failure_threshold = t] : t \in {1, 2}}

InitRegistry ==
    /\ now = 0
    /\ cfg \in RegConfigs
    /\ InitBreakers
    /\ InitStore
    /\ InitCoordinator
    /\ split_call = NoSplit
    /\ InitCrawler

NextRegistry ==
    \/ now < MaxRegTime /\ Tick
    \/ \E s \in RegSources : CBIsAvailable(s)
    \/ \E s \in RegSources :
          breakers[s].total_successes < MaxRegCalls /\ CBRecordSuccess(s)
    \/ \E s \in RegSources :
          breakers[s].total_failures < MaxRegCalls /\ CBRecordFailure(s)

SpecRegistry == InitRegistry /\ [][NextRegistry]_vars

\* breakers driven as the crawler drives them: record_success and
\* record_failure follow an is_available call on the same source that
\* returned True
Admitted(s) ==
    /\ cb_call.op = "is_available"
    /\ cb_call.src = s
    /\ cb_call.ret

NextGuarded ==
    \/ Tick
    \/ \E s \in CBSources : CBIsAvailable(s)
    \/ \E s \in CBSources : Admitted(s) /\ CBRecordSuccess(s)
    \/ \E s \in CBSources : Admitted(s) /\ CBRecordFailure(s)

SpecGuarded == InitCB /\ [][NextGuarded]_vars

\* ------------------------------------------------ FlightUpdaterCoordinator
\* lat/lon of a report; 0 stands for a report without lat or lon
PosVals == {1, 2}

\* PositionReport: the fields the change detection reads
Report(pos, callsign, category) ==
    [pos |-> pos, callsign |-> callsign, category |-> category]

\* what query_live_flights can return: reports for distinct aircraft
LiveFeeds ==
    UNION {[S -> {Report(p, "c1", 1) : p \in PosVals}] :
             S \in {T \in SUBSET RawAddrs : \A x, y \in T : Upper(x) = Upper(y) => x = y}}

\* addresses in the military ranges of ModesUtil
MilAddrs == {"AB2"}

\* an exception: its class, and whether its text says the space quota is used up
Error(type, quota) == [type |-> type, quota |-> quota]

\* what the calls of the enrichment branch can raise
Raisable ==
    {Error("Exception", FALSE), Error("OperationFailure", TRUE),
     Error("KeyboardInterrupt", FALSE)}

\* decorator of the repository methods: an error about the space quota is
\* re-raised as a DatabaseException whose text still carries the quota message
handle_mongodb_errors(e) ==
    IF e.type # "KeyboardInterrupt" /\ e.quota
    THEN Error("DatabaseException", TRUE)
    ELSE e

\* an except clause that lets every error out of update()
catches_nothing(e) == FALSE

\* update(): except (KeyboardInterrupt, SystemExit): raise / except Exception
catches(e) == e.type \notin {"KeyboardInterrupt", "SystemExit"}

\* update(): which of the two log lines a caught error gets
error_log(e) ==
    IF e.type = "DatabaseException" /\ e.quota THEN "quota" ELSE "exception"

Thrown(stage, e) ==
    [stage |-> stage, type |-> e.type, caught |-> catches(e),
     log |-> IF catches(e) THEN error_log(e) ELSE None]

\* ------------------------------------------------------------ SSENotifier
Callbacks == {"sync1", "async1", "async2"}

\* asyncio.iscoroutinefunction(callback)
iscoroutinefunction(cb) == cb \in {"async1", "async2"}

\* notify_clients: every callback is called (a coroutine function is scheduled
\* on the event loop, where it runs and may fail later); a callback that
\* raises in the call is collected and removed after the loop
notify_clients(callbacks, positions_dict, failing) ==
    IF positions_dict = {} \/ callbacks = {}
    THEN [callbacks |-> callbacks, pub |-> NoPub]
    ELSE [callbacks |->
              callbacks \ {cb \in callbacks : ~iscoroutinefunction(cb) /\ cb \in failing},
          pub |-> [n |-> 1, flights |-> positions_dict, invoked |-> callbacks,
                   failed |-> failing \cap callbacks]]

\* notify_position_changes: the changed flights among the cached ones, or the
\* cached ones when none matches
notify_position_changes(callbacks, all_cached_flights, changed_flight_ids, failing) ==
    IF callbacks = {} \/ changed_flight_ids = {}
    THEN [callbacks |-> callbacks, pub |-> NoPub]
    ELSE LET matched == all_cached_flights \cap changed_flight_ids
             positions_dict == IF matched = {} THEN all_cached_flights ELSE matched
         IN  notify_clients(callbacks, positions_dict, failing)

\* notify_category_changes / notify_callsign_changes: for every registered
\* coroutine function one broadcast of the changes is scheduled through the
\* SSE manager; the callbacks themselves are not called
notify_changes(callbacks, changes) ==
    IF callbacks = {} \/ DOMAIN changes = {}
    THEN NoPub
    ELSE LET scheduled == {cb \in callbacks : iscoroutinefunction(cb)}
         IN  [n |-> Cardinality(scheduled),
              flights |-> IF scheduled = {} THEN {} ELSE DOMAIN changes,
              invoked |-> {}, failed |-> {}]

\* register_callback
SseRegister(cb) ==
    /\ sse_callbacks' = sse_callbacks \cup {cb}
    /\ UNCHANGED <<now, cfg, q_call, split_call, sse_out, active_connections, cbvars, storevars,
                   updvars, crawlvars>>

\* unregister_callback
SseUnregister(cb) ==
    /\ cb \in sse_callbacks
    /\ sse_callbacks' = sse_callbacks \ {cb}
    /\ UNCHANGED <<now, cfg, q_call, split_call, sse_out, active_connections, cbvars, storevars,
                   updvars, crawlvars>>

\* -------------------------------------------------------- PositionManager
\* the reports with lat and lon, keyed by flight
valid_positions(filtered_pos) ==
    LET valid == {x \in DOMAIN filtered_pos : filtered_pos[x].pos # 0}
    IN  [a \in {Upper(x) : x \in valid} |->
            filtered_pos[CHOOSE x \in valid : Upper(x) = a]]

\* add_positions: the cache after the reports
add_positions(cache, reports) ==
    [a \in (DOMAIN cache) \cup (DOMAIN reports) |->
        IF a \in DOMAIN reports THEN reports[a] ELSE cache[a]]

\* add_positions: the flights of the reports whose field differs from the
\* cached report, or that were not cached
changed_in(cache, reports, field) ==
    {a \in DOMAIN reports : a \notin DOMAIN cache \/ cache[a][field] # reports[a][field]}

\* get_cached_flights: the cached flights with a recent position
get_cached_flights(cache, recent) == DOMAIN cache \cap recent

\* ----------------------------------------------------------------- update
\* acquire(blocking=False) that takes the lock whoever holds it
UpdateAcquire_unguarded(t) ==
    /\ upc[t] = "idle"
    /\ update_lock' = t
    /\ upc' = [upc EXCEPT ![t] = "start"]
    /\ UNCHANGED <<now, cfg, q_call, split_call, ssevars, cbvars, crawlvars, storevars,
                   is_updating, skip_log, upd_positions, flights, pos_cache, pm_changes,
                   pm_category_changes, pm_callsign_changes, upd_error>>

\* update(): the lock is free and is taken
UpdateAcquire(t) ==
    /\ upc[t] = "idle"
    /\ update_lock = NoOwner
    /\ update_lock' = t
    /\ upc' = [upc EXCEPT ![t] = "start"]
    /\ UNCHANGED <<now, cfg, q_call, split_call, ssevars, cbvars, crawlvars, storevars,
                   is_updating, skip_log, upd_positions, flights, pos_cache, pm_changes,
                   pm_category_changes, pm_callsign_changes, upd_error>>

\* a skipped call that still runs the finally block
UpdateSkip_runs_finally(t) ==
    /\ upc[t] = "idle"
    /\ update_lock # NoOwner
    /\ skip_log < MaxSkips
    /\ skip_log' = skip_log + 1
    /\ is_updating' = FALSE
    /\ UNCHANGED <<now, cfg, q_call, split_call, ssevars, cbvars, crawlvars, storevars,
                   upc, update_lock, upd_positions, flights, pos_cache, pm_changes,
                   pm_category_changes, pm_callsign_changes, upd_error>>

\* update(): the lock is held, the call logs the skip and returns
UpdateSkip(t) ==
    /\ upc[t] = "idle"
    /\ update_lock # NoOwner
    /\ skip_log < MaxSkips
    /\ skip_log' = skip_log + 1
    /\ UNCHANGED <<now, cfg, q_call, split_call, ssevars, cbvars, crawlvars, storevars,
                   upc, update_lock, is_updating, upd_positions, flights, pos_cache,
                   pm_changes, pm_category_changes, pm_callsign_changes, upd_error>>

\* is_updating = True; clear_changes()
UpdateStart(t) ==
    /\ upc[t] = "start"
    /\ is_updating' = TRUE
    /\ pm_changes' = {}
    /\ pm_category_changes' = EmptyMap
    /\ pm_callsign_changes' = EmptyMap
    /\ upd_error' = NoError
    /\ sse_out' = NoPublications
    /\ upc' = [upc EXCEPT ![t] = "fetch"]
    /\ UNCHANGED <<now, cfg, q_call, split_call, sse_callbacks, active_connections, cbvars,
                   crawlvars, storevars,
                   update_lock, skip_log, upd_positions, flights, pos_cache>>

\* positions = query_live_flights(False); nothing fetched, or the call raising,
\* leaves through the finally block
UpdateFetchFrom(t, feeds) ==
    /\ upc[t] = "fetch"
    /\ \E raised \in BOOLEAN, positions \in feeds :
        /\ upd_positions' = [upd_positions EXCEPT ![t] =
                                IF raised THEN EmptyMap ELSE positions]
        /\ upd_error' = IF raised
                        THEN [stage |-> "fetch", type |-> "Exception",
                              caught |-> FALSE, log |-> None]
                        ELSE upd_error
        /\ upc' = [upc EXCEPT ![t] =
                      IF raised \/ DOMAIN positions = {} THEN "finally" ELSE "schedule"]
    /\ UNCHANGED <<now, cfg, q_call, split_call, ssevars, cbvars, crawlvars, storevars,
                   update_lock, is_updating, skip_log, flights, pos_cache, pm_changes,
                   pm_category_changes, pm_callsign_changes>>

UpdateFetch(t) == UpdateFetchFrom(t, LiveFeeds)

\* schedule_aircraft_for_processing(live_icao24s); an error that is not a
\* PyMongoError is not caught by the repository and leaves update() through
\* the finally block
UpdateSchedule(t) ==
    /\ upc[t] = "schedule"
    /\ LET live == DOMAIN upd_positions[t]
       IN  \/ \E order \in Orders(live), bad \in SUBSET live :
                LET r == AddAll(queue, queue, next_id, aircraft_db, order, bad, 1)
                IN  /\ r.id <= MaxAdds + 1
                    /\ queue' = r.q
                    /\ next_id' = r.id
                    /\ upc' = [upc EXCEPT ![t] = "enrich"]
                    /\ UNCHANGED upd_error
           \/ /\ upd_error' = [stage |-> "schedule", type |-> "Exception",
                                caught |-> FALSE, log |-> None]
              /\ upc' = [upc EXCEPT ![t] = "finally"]
              /\ UNCHANGED <<queue, next_id>>
    /\ UNCHANGED <<now, cfg, q_call, split_call, ssevars, cbvars, crawlvars, aircraft_db,
                   update_lock, is_updating, skip_log, upd_positions, flights, pos_cache,
                   pm_changes, pm_category_changes, pm_callsign_changes>>

\* filter_military_only
filter_military_only(positions) ==
    IF cfg.military_only
    THEN [x \in {y \in DOMAIN positions : Upper(y) \in MilAddrs} |-> positions[x]]
    ELSE positions

\* the calls of the enrichment branch that can raise
Stages == {"flights", "positions", "broadcast"}

\* the enrichment branch: filter, update_flights, add_positions, and the three
\* broadcasts. thrown is the error raised and the call that raised it, NoError
\* when none did; failing are the callbacks that fail when they are notified;
\* recent are the flights get_cached_flights keeps.
Enrich(t, thrown, failing, recent) ==
    LET filtered_pos == filter_military_only(upd_positions[t])
        stage == thrown.stage
        reports == valid_positions(filtered_pos)
        added == stage \notin {"flights", "positions"}
        has_callbacks == sse_callbacks # {}
        changed == changed_in(pos_cache, reports, "pos")
        category_changes ==
            [a \in changed_in(pos_cache, reports, "category") |-> reports[a].category]
        callsign_changes ==
            [a \in changed_in(pos_cache, reports, "callsign") |-> reports[a].callsign]
        all_cached_flights == get_cached_flights(add_positions(pos_cache, reports), recent)
        positions ==
            IF stage = None /\ has_callbacks /\ changed # {}
            THEN notify_position_changes(sse_callbacks, all_cached_flights, changed, failing)
            ELSE [callbacks |-> sse_callbacks, pub |-> NoPub]
        categories ==
            IF stage = None /\ has_callbacks /\ DOMAIN category_changes # {}
            THEN notify_changes(positions.callbacks, category_changes)
            ELSE NoPub
        callsigns ==
            IF stage = None /\ has_callbacks /\ DOMAIN callsign_changes # {}
            THEN notify_changes(positions.callbacks, callsign_changes)
            ELSE NoPub
    IN  /\ flights' = IF stage = "flights" THEN flights
                      ELSE flights \cup {Upper(x) : x \in DOMAIN filtered_pos}
        /\ pos_cache' = IF added THEN add_positions(pos_cache, reports) ELSE pos_cache
        /\ pm_changes' = IF added THEN changed ELSE pm_changes
        /\ pm_category_changes' = IF added THEN category_changes ELSE pm_category_changes
        /\ pm_callsign_changes' = IF added THEN callsign_changes ELSE pm_callsign_changes
        /\ upd_error' = thrown
        /\ sse_callbacks' = positions.callbacks
        /\ sse_out' = [positions |-> positions.pub, categories |-> categories,
                       callsigns |-> callsigns]

\* an error thrown in the enrichment branch is caught and logged, unless it is
\* an interrupt; recents: what get_cached_flights may keep
UpdateEnrichOver(t, raisable, recents) ==
    /\ upc[t] = "enrich"
    /\ IF DOMAIN filter_military_only(upd_positions[t]) = {}
       THEN UNCHANGED <<flights, pos_cache, pm_changes, pm_category_changes,
                        pm_callsign_changes, upd_error, ssevars>>
       ELSE \E failing \in SUBSET sse_callbacks, recent \in recents :
               \/ Enrich(t, NoError, failing, recent)
               \/ \E stage \in Stages, e \in raisable :
                     Enrich(t, Thrown(stage, IF stage = "broadcast" THEN e
                                             ELSE handle_mongodb_errors(e)),
                            failing, recent)
    /\ upc' = [upc EXCEPT ![t] = "finally"]
    /\ UNCHANGED <<now, cfg, q_call, split_call, active_connections, cbvars, crawlvars, storevars,
                   update_lock,
                   is_updating, skip_log, upd_positions>>

\* the cycle when every cached flight is recent
UpdateEnrichWith(t, raisable) == UpdateEnrichOver(t, raisable, {Addrs})

UpdateEnrich(t) == UpdateEnrichWith(t, {Error("Exception", FALSE)})

\* the cycle when the request context registers or unregisters callback cb
\* while notify_clients iterates self._callbacks: the callbacks in `visited`
\* have been called, then the set iterator finds the set's size changed and
\* raises RuntimeError from the for statement, outside the try of the loop
\* body; the error leaves notify_clients and is caught by update()
UpdateEnrichRacing(t, cb) ==
    /\ upc[t] = "enrich"
    /\ LET filtered_pos == filter_military_only(upd_positions[t])
           reports == valid_positions(filtered_pos)
           changed == changed_in(pos_cache, reports, "pos")
       IN  /\ DOMAIN filtered_pos # {}
           /\ sse_callbacks # {}
           /\ changed # {}
           /\ flights' = flights \cup {Upper(x) : x \in DOMAIN filtered_pos}
           /\ pos_cache' = add_positions(pos_cache, reports)
           /\ pm_changes' = changed
           /\ pm_category_changes' =
                 [a \in changed_in(pos_cache, reports, "category") |-> reports[a].category]
           /\ pm_callsign_changes' =
                 [a \in changed_in(pos_cache, reports, "callsign") |-> reports[a].callsign]
           /\ \E visited \in SUBSET sse_callbacks :
                 /\ sse_callbacks' = IF cb \in sse_callbacks
                                     THEN sse_callbacks \ {cb}
                                     ELSE sse_callbacks \cup {cb}
                 /\ sse_out' = [positions |-> [n |-> 1, flights |-> changed,
                                               invoked |-> visited, failed |-> {}],
                                categories |-> NoPub, callsigns |-> NoPub]
           /\ upd_error' = Thrown("broadcast", Error("RuntimeError", FALSE))
    /\ upc' = [upc EXCEPT ![t] = "finally"]
    /\ UNCHANGED <<now, cfg, q_call, split_call, active_connections, cbvars, crawlvars,
                   storevars, update_lock, is_updating, skip_log, upd_positions>>

\* a finally block that clears the flag and keeps the lock
UpdateFinally_keeps_lock(t) ==
    /\ upc[t] = "finally"
    /\ is_updating' = FALSE
    /\ upc' = [upc EXCEPT ![t] = "idle"]
    /\ upd_positions' = [upd_positions EXCEPT ![t] = EmptyMap]
    /\ UNCHANGED <<now, cfg, q_call, split_call, ssevars, cbvars, crawlvars, storevars,
                   update_lock, skip_log, flights, pos_cache, pm_changes,
                   pm_category_changes, pm_callsign_changes, upd_error>>

\* finally: is_updating = False; release the lock
UpdateFinally(t) ==
    /\ upc[t] = "finally"
    /\ is_updating' = FALSE
    /\ update_lock' = NoOwner
    /\ upc' = [upc EXCEPT ![t] = "idle"]
    /\ upd_positions' = [upd_positions EXCEPT ![t] = EmptyMap]
    /\ UNCHANGED <<now, cfg, q_call, split_call, ssevars, cbvars, crawlvars, storevars,
                   skip_log, flights, pos_cache, pm_changes, pm_category_changes,
                   pm_callsign_changes, upd_error>>

UpdConfigs == {[DefaultConfig EXCEPT !.military_only = m] : m \in BOOLEAN}

InitUpd ==
    /\ now = 0
    /\ cfg \in UpdConfigs
    /\ InitBreakers
    /\ InitStore
    /\ InitCoordinator
    /\ split_call = NoSplit
    /\ InitCrawler

NextUpd ==
    \/ \E t \in Threads : UpdateAcquire(t)
    \/ \E t \in Threads : UpdateSkip(t)
    \/ \E t \in Threads : UpdateStart(t)
    \/ \E t \in Threads : UpdateFetch(t)
    \/ \E t \in Threads : UpdateSchedule(t)
    \/ \E t \in Threads : UpdateEnrich(t)
    \/ \E t \in Threads : UpdateFinally(t)

SpecUpd == InitUpd /\ [][NextUpd]_vars

\* ---------------------------------------------------------- AirplaneCrawler
MAX_ACTIVITY_ENTRIES == 50

\* Aircraft.is_complete_with_operator
is_complete_with_operator(a) ==
    /\ "reg" \in a.fields
    /\ "type_code" \in a.fields
    /\ ("type_desc" \in a.fields \/ "operator" \in a.fields)

\* _is_sufficient
is_sufficient(a) ==
    /\ "reg" \in a.fields
    /\ "type_code" \in a.fields
    /\ ("type_desc" \in a.fields \/ "operator" \in a.fields)

\* Aircraft.merge: fills the fields that are still empty
merge(a, other) == [a EXCEPT !.fields = @ \cup other.fields]
merge_changed(a, other) == ~(other.fields \subseteq a.fields)

\* the names of AirplaneCrawler.sources
ConfiguredSources == {cfg.sources[i] : i \in 1..Len(cfg.sources)}

\* what one source can answer to query_aircraft_with_status: a status, and
\* with data the fields of the aircraft it carries
DataSets == {Fields, {"reg", "type_code"}, {"operator"}}
Responses ==
    {[status |-> st, fields |-> {}] : st \in {"service_error", "not_found", "raise"}}
    \cup {[status |-> "data", fields |-> f] : f \in DataSets}

\* AircraftMetadataSource.accept: every source takes every address
accept(s, icao24) == TRUE

\* QueryStatus of a result that carries an aircraft
data_status(a) == IF is_complete_with_operator(a) THEN "success" ELSE "partial_data"

\* the final flags when a service error outranks a confirmed not-found
final_flags_error_first(best, had_service_error, any_not_found, any_source_queried) ==
    LET is_service_error == (had_service_error \/ ~any_source_queried) /\ ~best.present
        is_not_found == any_not_found /\ ~best.present
    IN  [had_service_error |-> is_service_error, all_not_found |-> is_not_found]

\* lines 277-282: the final flags of the CrawlResult
final_flags(best, had_service_error, any_not_found, any_source_queried) ==
    LET is_not_found == any_not_found /\ ~best.present
        is_service_error ==
            /\ ~is_not_found
            /\ (had_service_error \/ ~any_source_queried)
            /\ ~best.present
    IN  [had_service_error |-> is_service_error, all_not_found |-> is_not_found]

QueryStart(brk) ==
    [best |-> NoAircraft, sources_used |-> <<>>, had_service_error |-> FALSE,
     any_not_found |-> FALSE, any_source_queried |-> FALSE, query_logs |-> <<>>,
     brk |-> brk, returned |-> FALSE, had_flag |-> FALSE, nf_flag |-> FALSE]

\* SourceQueryLog: the source, the status and, when the source answered with
\* data, its payload
Log(s, status) == [source |-> s, status |-> status, payload |-> {}]
DataLog(s, status, fields) == [source |-> s, status |-> status, payload |-> fields]

\* the variant that goes on to the next source instead of returning
Return_keeps_going(st, a) == [st EXCEPT !.best = a]

\* an early return of _query_aircraft_metadata with aircraft a
Return(st, a) ==
    [st EXCEPT !.best = a, !.returned = TRUE,
               !.had_flag = st.had_service_error, !.nf_flag = FALSE]

\* one pass of the for loop: source s answers r
QueryOne(st, s, icao24, enabled, r) ==
    IF ~accept(s, icao24) THEN st
    ELSE IF ~enabled[s] THEN st
    ELSE IF ~is_available_ret(st.brk[s])
    THEN [st EXCEPT !.brk[s] = is_available_next(@),
                    !.query_logs = Append(@, Log(s, "skipped_circuit_breaker"))]
    ELSE
    LET st1 == [st EXCEPT !.brk[s] = is_available_next(@)]
    IN  IF r.status = "raise"
        THEN [st1 EXCEPT !.brk[s] = record_failure(@),
                         !.had_service_error = TRUE,
                         !.any_source_queried = TRUE,
                         !.query_logs = Append(@, Log(s, "exception"))]
        ELSE IF r.status = "service_error"
        THEN [st1 EXCEPT !.query_logs = Append(@, Log(s, "service_error")),
                         !.any_source_queried = TRUE,
                         !.brk[s] = record_failure(@),
                         !.had_service_error = TRUE]
        ELSE IF r.status = "not_found"
        THEN [st1 EXCEPT !.query_logs = Append(@, Log(s, "not_found")),
                         !.any_source_queried = TRUE,
                         !.brk[s] = record_success(@),
                         !.any_not_found = TRUE]
        ELSE
        LET aircraft == [present |-> TRUE, fields |-> r.fields, source |-> <<s>>]
            st2 == [st1 EXCEPT !.query_logs = Append(@, DataLog(s, data_status(aircraft),
                                                                r.fields)),
                               !.any_source_queried = TRUE,
                               !.brk[s] = record_success(@)]
        IN  IF is_complete_with_operator(aircraft)
            THEN Return(st2, aircraft)
            ELSE
            LET st3 == IF ~st2.best.present
                       THEN [st2 EXCEPT !.best = aircraft,
                                        !.sources_used = Append(@, s)]
                       ELSE [st2 EXCEPT !.best = merge(@, aircraft),
                                        !.sources_used =
                                            IF merge_changed(st2.best, aircraft)
                                            THEN Append(@, s) ELSE @]
            IN  IF is_complete_with_operator(st3.best) \/ is_sufficient(st3.best)
                THEN Return(st3, [st3.best EXCEPT !.source = st3.sources_used])
                ELSE st3

RECURSIVE QueryLoop(_, _, _, _, _)
QueryLoop(st, i, icao24, enabled, resp) ==
    IF st.returned \/ i > Len(cfg.sources) THEN st
    ELSE QueryLoop(QueryOne(st, cfg.sources[i], icao24, enabled, resp[cfg.sources[i]]),
                   i + 1, icao24, enabled, resp)

\* _query_aircraft_metadata: the CrawlResult, and the breakers after the queries
query_aircraft_metadata(icao24, brk, enabled, resp) ==
    LET st == QueryLoop(QueryStart(brk), 1, icao24, enabled, resp)
        best == IF st.best.present /\ Len(st.sources_used) > 1
                THEN [st.best EXCEPT !.source = st.sources_used]
                ELSE st.best
        ff == final_flags(best, st.had_service_error, st.any_not_found,
                          st.any_source_queried)
    IN  IF st.returned
        THEN [aircraft |-> st.best, had_service_error |-> st.had_flag,
              all_not_found |-> st.nf_flag, query_logs |-> st.query_logs, brk |-> st.brk]
        ELSE [aircraft |-> best, had_service_error |-> ff.had_service_error,
              all_not_found |-> ff.all_not_found, query_logs |-> st.query_logs,
              brk |-> st.brk]

\* AircraftRepository.insert_aircraft when it succeeds: the record is upserted
insert_aircraft(db, icao24, a) ==
    MapPut(db, Upper(icao24),
           [fields |-> a.fields, blank |-> {}, source |-> a.source,
            last_modified |-> now])

\* the queue after insert_aircraft answered, whatever it answered
on_insert_result_always_removes(q, icao24, inserted) ==
    remove_aircraft(q, icao24)

\* lines 324-337: the queue after insert_aircraft answered
on_insert_result(q, icao24, inserted) ==
    IF inserted THEN remove_aircraft(q, icao24)
    ELSE record_service_error(q, icao24, "Database insert failed")

\* lines 326-331: the activity status of a stored record
stored_status(a) ==
    IF is_complete_with_operator(a) THEN "success"
    ELSE IF Len(a.source) > 1 THEN "merged"
    ELSE "partial"

Activity(icao24, status, a, crawl_reason, query_count) ==
    [icao24 |-> icao24, timestamp |-> now, status |-> status,
     source |-> a.source, registration |-> "reg" \in a.fields,
     aircraft_type |-> "type_code" \in a.fields,
     crawl_reason |-> crawl_reason, query_count |-> query_count]

\* appendleft on a deque without maxlen
record_activity_unbounded(log, act) == <<act>> \o log

\* _record_activity: appendleft on a deque of MAX_ACTIVITY_ENTRIES
record_activity(log, act) == Take(<<act>> \o log, MAX_ACTIVITY_ENTRIES)

\* source queries made so far: every query ends in one breaker update
RECURSIVE QueriesMade(_, _)
QueriesMade(brk, i) ==
    IF i > Len(SourceOrder) THEN 0
    ELSE brk[SourceOrder[i]].total_failures + brk[SourceOrder[i]].total_successes
         + QueriesMade(brk, i + 1)

\* crawl_sources up to the for loop: reset, cleanup, select the batch
CrawlBegin ==
    /\ crawl_pc = "idle"
    /\ LET q1 == reset_service_error_attempts(queue)
           q2 == cleanup_failed_aircraft(q1)
           aircraft_to_process == get_aircraft_for_processing(q2, cfg.batch_size)
       IN  /\ queue' = q2
           /\ crawl_batch' = aircraft_to_process
           /\ crawl_pc' = IF aircraft_to_process = <<>> THEN "idle" ELSE "loop"
    /\ UNCHANGED <<now, cfg, q_call, split_call, ssevars, cbvars, next_id, aircraft_db, updvars, crawl_count,
                   last_crawl, source_enabled, activity_log, saved_logs, act_call>>

\* the variant in which an exception ends the for loop
rest_of_batch_aborts(batch, status) == IF status = "raised" THEN <<>> ELSE Tail(batch)

\* the addresses the for loop still has to process after a pass that ended
\* with status; an exception is caught inside the loop
rest_of_batch(batch, status) == Tail(batch)

\* one pass of the for loop of crawl_sources, for the next address of the batch;
\* answers: what a source may answer, inserts: what insert_aircraft may do,
\* max_queries: the number of source queries the run is followed for
CrawlPass(answers, inserts, max_queries) ==
    /\ crawl_pc = "loop"
    /\ crawl_batch # <<>>
    /\ crawl_count < MaxCrawls
    /\ \E resp \in [ConfiguredSources -> answers] :
       \E r \in {x \in {query_aircraft_metadata(Head(crawl_batch), breakers,
                                                 source_enabled, resp)} :
                    QueriesMade(x.brk, 1) <= max_queries} :
       \E ins \in (IF r.aircraft.present THEN inserts ELSE {None}) :
        \* ins: insert_aircraft returned True, returned False, or raised
        LET icao24 == Head(crawl_batch)
            crawl_reason == get_crawl_reason(queue, icao24)
            query_count == Len(r.query_logs)
            status ==
                IF r.aircraft.present
                THEN IF ins = "ok" THEN stored_status(r.aircraft)
                     ELSE IF ins = "fail" THEN "service_error" ELSE "raised"
                ELSE IF r.had_service_error THEN "service_error"
                ELSE IF r.all_not_found THEN "not_found"
                ELSE "service_error"
        IN  /\ breakers' = r.brk
            /\ aircraft_db' =
                 IF ins = "ok" THEN insert_aircraft(aircraft_db, icao24, r.aircraft)
                 ELSE aircraft_db
            /\ queue' =
                 IF r.aircraft.present
                 THEN IF ins = "raise"
                      THEN record_service_error(queue, icao24, "exception")
                      ELSE on_insert_result(queue, icao24, ins = "ok")
                 ELSE IF r.had_service_error
                      THEN record_service_error(queue, icao24, None)
                 ELSE IF r.all_not_found
                      THEN record_not_found(queue, icao24)
                 ELSE record_service_error(queue, icao24, "Unknown crawl state")
            /\ activity_log' =
                 IF status = "raised" THEN activity_log
                 ELSE record_activity(activity_log,
                        Activity(icao24, status,
                                 IF ins = "ok" THEN r.aircraft ELSE NoAircraft,
                                 crawl_reason, query_count))
            /\ saved_logs' =
                 IF status # "raised" /\ Len(r.query_logs) >= 2
                 THEN Append(saved_logs,
                             [icao24 |-> icao24, queries |-> Len(r.query_logs),
                              final_status |-> status,
                              final_source |-> r.aircraft.source])
                 ELSE saved_logs
            /\ last_crawl' =
                 [icao24 |-> icao24, at |-> now, logs |-> r.query_logs,
                  aircraft |-> r.aircraft, insert |-> ins, status |-> status]
            /\ crawl_batch' = rest_of_batch(crawl_batch, status)
            /\ crawl_pc' = IF rest_of_batch(crawl_batch, status) = <<>>
                           THEN "idle" ELSE "loop"
    /\ crawl_count' = crawl_count + 1
    /\ UNCHANGED <<now, cfg, q_call, split_call, ssevars, cb_call, probes, next_id, updvars, source_enabled,
                   act_call>>

InsertOutcomes == {"ok", "fail", "raise"}

CrawlOne == CrawlPass(Responses, InsertOutcomes, MaxQueries)

\* add_aircraft called for an observed address (the update cycle's hand-off),
\* while fewer than max_queued addresses have been queued
QueueAddUpTo(icao24, reason, max_queued) ==
    /\ next_id <= max_queued
    /\ queue' = add_aircraft(queue, next_id, icao24, reason)
    /\ next_id' = IF Upper(icao24) \in DOMAIN queue THEN next_id ELSE next_id + 1
    /\ UNCHANGED <<now, cfg, q_call, split_call, ssevars, cbvars, aircraft_db, updvars, crawlvars>>

QueueAdd(icao24, reason) == QueueAddUpTo(icao24, reason, MaxQueued)

\* set_source_enabled (admin toggle)
SetSourceEnabled(s, enabled) ==
    /\ source_enabled' = IF s \in ConfiguredSources
                         THEN [source_enabled EXCEPT ![s] = enabled]
                         ELSE source_enabled
    /\ UNCHANGED <<now, cfg, q_call, split_call, ssevars, cbvars, storevars, updvars, crawl_pc, crawl_batch,
                   crawl_count, last_crawl, activity_log, saved_logs, act_call>>

\* the clock of the crawler's runs
CrawlTick ==
    /\ now < MaxHours
    /\ now' = now + 1
    /\ UNCHANGED <<cfg, q_call, split_call, ssevars, cbvars, storevars, updvars, crawlvars>>

\* the crawler's configuration: the two built-in sources (no proxy sources
\* configured), breakers that trip on the first failure
CrawlConfig == [DefaultConfig EXCEPT !.sources = <<"A", "B">>,
                                    !.failure_threshold = 1]

InitCrawl ==
    /\ now = 0
    /\ cfg = CrawlConfig
    /\ InitBreakers
    /\ InitStore
    /\ InitCoordinator
    /\ split_call = NoSplit
    /\ InitCrawler

\* the crawler's cycles over time, every source left enabled
NextCrawl ==
    \/ CrawlTick
    \/ CrawlBegin
    \/ CrawlOne
    \/ \E x \in RawAddrs : QueueAdd(x, "not_in_db")

SpecCrawl == InitCrawl /\ [][NextCrawl]_vars

\* the crawler's cycles with the admin toggling sources between and during them
NextAdmin ==
    \/ CrawlBegin
    \/ CrawlOne
    \/ \E x \in RawAddrs : QueueAdd(x, "not_in_db")
    \/ \E s \in Sources, e \in BOOLEAN : SetSourceEnabled(s, e)

SpecAdmin == InitCrawl /\ [][NextAdmin]_vars

\* the crawler's cycles over time when no source ever has data for an address:
\* every configured source answers every query, with not-found or an error
NoDataResponses == {r \in Responses : r.status # "data"}

CrawlNoData == CrawlPass(NoDataResponses, InsertOutcomes, MaxCrawls * Len(cfg.sources))

NextRetry ==
    \/ CrawlTick
    \/ CrawlBegin
    \/ CrawlNoData
    \/ \E x \in RawAddrs : QueueAdd(x, "not_in_db")

SpecRetry == InitCrawl /\ [][NextRetry]_vars

\* the crawler with three sources configured, A before B before C
MergeConfig == [CrawlConfig EXCEPT !.sources = SourceOrder]

InitMerge ==
    /\ now = 0
    /\ cfg = MergeConfig
    /\ InitBreakers
    /\ InitStore
    /\ InitCoordinator
    /\ split_call = NoSplit
    /\ InitCrawler

CrawlThree == CrawlPass(Responses, InsertOutcomes, MaxQueries + 1)

NextMerge ==
    \/ CrawlBegin
    \/ CrawlThree
    \/ \E x \in RawAddrs : QueueAdd(x, "not_in_db")

SpecMerge == InitMerge /\ [][NextMerge]_vars

\* the crawler's cycles over a queue of several addresses
NextBatch ==
    \/ CrawlBegin
    \/ CrawlOne
    \/ \E x \in RawAddrs : QueueAddUpTo(x, "not_in_db", MaxQueued + 1)

SpecBatch == InitCrawl /\ [][NextBatch]_vars

\* ------------------------------------------------------------ SpecQueue
\* the processing repository driven call by call, each call recorded in q_call
QCall(op, icao24, ret, limit) ==
    [op |-> op, icao24 |-> icao24, ret |-> ret, limit |-> limit, count |-> 0, bad |-> {}]

\* the add_aircraft calls made: any address as not-in-db, and one address,
\* in either letter case, also as stale
AddCalls == (RawAddrs \X {"not_in_db"}) \cup ({x \in RawAddrs : Upper(x) = "AB1"} \X {"stale"})
ErrorMessages == {"timeout"}

QStoreUnchanged == UNCHANGED <<now, cfg, split_call, ssevars, cbvars, aircraft_db, updvars, crawlvars>>

QAddAircraft(icao24, reason) ==
    /\ Upper(icao24) \in DOMAIN queue \/ next_id <= MaxInserts
    /\ queue' = add_aircraft(queue, next_id, icao24, reason)
    /\ next_id' = IF Upper(icao24) \in DOMAIN queue THEN next_id ELSE next_id + 1
    /\ q_call' = QCall("add_aircraft", icao24, <<>>, 0)
    /\ QStoreUnchanged

QRecordNotFound(icao24) ==
    /\ Upper(icao24) \in DOMAIN queue => queue[Upper(icao24)].query_attempts < MaxNotFound
    /\ queue' = record_not_found(queue, icao24)
    /\ q_call' = QCall("record_not_found", icao24, <<>>, 0)
    /\ UNCHANGED next_id
    /\ QStoreUnchanged

QRecordServiceError(icao24, error_message) ==
    /\ queue' = record_service_error(queue, icao24, error_message)
    /\ q_call' = QCall("record_service_error", icao24, <<>>, 0)
    /\ UNCHANGED next_id
    /\ QStoreUnchanged

QResetServiceErrorAttempts ==
    /\ queue' = reset_service_error_attempts(queue)
    /\ q_call' = [QCall("reset_service_error_attempts", None, <<>>, 0)
                     EXCEPT !.count = reset_service_error_attempts_count(queue)]
    /\ UNCHANGED next_id
    /\ QStoreUnchanged

QCleanupFailedAircraft ==
    /\ queue' = cleanup_failed_aircraft(queue)
    /\ q_call' = [QCall("cleanup_failed_aircraft", None, <<>>, 0)
                     EXCEPT !.count = cleanup_failed_aircraft_count(queue)]
    /\ UNCHANGED next_id
    /\ QStoreUnchanged

QRemoveAircraft(icao24) ==
    /\ queue' = remove_aircraft(queue, icao24)
    /\ q_call' = QCall("remove_aircraft", icao24, <<>>, 0)
    /\ UNCHANGED next_id
    /\ QStoreUnchanged

QGetAircraftForProcessing(limit) ==
    /\ q_call' = QCall("get_aircraft_for_processing", None,
                       get_aircraft_for_processing(queue, limit), limit)
    /\ UNCHANGED <<queue, next_id>>
    /\ QStoreUnchanged

QTick ==
    /\ now < MaxHours
    /\ now' = now + 1
    /\ UNCHANGED <<cfg, q_call, split_call, ssevars, cbvars, storevars, updvars, crawlvars>>

QueueConfig == [DefaultConfig EXCEPT !.service_error_reset_hours = 1]

InitQueue ==
    /\ now = 0
    /\ cfg = QueueConfig
    /\ InitBreakers
    /\ InitStore
    /\ InitCoordinator
    /\ split_call = NoSplit
    /\ InitCrawler

NextQueue ==
    \/ QTick
    \/ \E c \in AddCalls : QAddAircraft(c[1], c[2])
    \/ \E x \in RawAddrs : QRecordNotFound(x)
    \/ \E x \in RawAddrs, m \in ErrorMessages : QRecordServiceError(x, m)
    \/ QResetServiceErrorAttempts
    \/ QCleanupFailedAircraft
    \/ \E x \in RawAddrs : QRemoveAircraft(x)
    \/ \E limit \in 1..cfg.batch_size : QGetAircraftForProcessing(limit)

SpecQueue == InitQueue /\ [][NextQueue]_vars

\* ------------------------------------------------------------ SpecClassify
\* schedule_aircraft_for_processing called with sets of observed addresses, over
\* stored records, thresholds and times of every kind
Doc(fields, blank, last_modified) ==
    [fields |-> fields, blank |-> blank, source |-> <<"A">>,
     last_modified |-> last_modified]

\* stored records: complete, without operator, with a blank registration, all
\* modified at time 0, and a complete one without modification timestamp
Docs ==
    {Doc(Fields, {}, 0), Doc(Fields \ {"operator"}, {}, 0), Doc(Fields, {"reg"}, 0),
     Doc(Fields, {}, NoTime)}

ClassifyDBs == UNION {[S -> Docs] : S \in SUBSET Addrs}

ClassifyConfigs ==
    {[DefaultConfig EXCEPT !.staleness_days = s, !.incomplete_staleness_days = i] :
        s \in 1..MaxDays, i \in 1..MaxDays}

\* sets of observed addresses: one report per aircraft
LiveSets == {T \in SUBSET RawAddrs : T # {} /\ \A x, y \in T : Upper(x) = Upper(y) => x = y}

\* schedule_aircraft_for_processing(icao24s): the loop visits the set in `order`,
\* the look-up of the addresses in `bad` raises
ClassifySchedule(order, bad) ==
    /\ LET r == AddAll(queue, queue, next_id, aircraft_db, order, bad, 1)
       IN  /\ queue' = r.q
           /\ next_id' = r.id
    /\ q_call' = [QCall("schedule_aircraft_for_processing", None, order, 0)
                     EXCEPT !.bad = bad]
    /\ UNCHANGED <<now, cfg, split_call, ssevars, cbvars, aircraft_db, updvars, crawlvars>>

InitClassify ==
    /\ now \in 0..(MaxDays + 1)
    /\ cfg \in ClassifyConfigs
    /\ InitBreakers
    /\ queue = EmptyMap
    /\ next_id = 1
    /\ aircraft_db \in ClassifyDBs
    /\ q_call = NoQCall
    /\ InitCoordinator
    /\ split_call = NoSplit
    /\ InitCrawler

NextClassify ==
    \E live \in LiveSets : \E order \in Orders(live), bad \in SUBSET live :
        ClassifySchedule(order, bad)

SpecClassify == InitClassify /\ [][NextClassify]_vars

\* ------------------------------------------------------------ SpecRequeue
\* the update cycle's hand-off and the crawler's cycles over time, for aircraft
\* that every source reports as not found; the cap is one not-found outcome
RequeueConfig == [CrawlConfig EXCEPT !.max_attempts = 1]

NotFoundResponses == {r \in Responses : r.status = "not_found"}

CrawlNotFound == CrawlPass(NotFoundResponses, InsertOutcomes, MaxCrawls * Len(cfg.sources))

InitRequeue ==
    /\ now = 0
    /\ cfg = RequeueConfig
    /\ InitBreakers
    /\ InitStore
    /\ InitCoordinator
    /\ split_call = NoSplit
    /\ InitCrawler

NextRequeue ==
    \/ CrawlTick
    \/ CrawlBegin
    \/ CrawlNotFound
    \/ \E live \in LiveSets : \E order \in Orders(live) : ClassifySchedule(order, {})

SpecRequeue == InitRequeue /\ [][NextRequeue]_vars

\* ------------------------------------------- live positions stream (SSE)
\* the clients of /positions/live/stream; each one registers its own
\* broadcast_positions closure, named here like the client
StreamClients == {"async1", "async2"}

\* SSEConnectionManager.broadcast_positions: the message is put into the queue
\* of every connected position client
broadcast_positions(connections, positions) ==
    IF DOMAIN connections = {} \/ positions = {} THEN connections
    ELSE [c \in DOMAIN connections |-> Append(connections[c], positions)]

RECURSIVE run_callbacks(_, _, _)
\* the coroutines notify_clients scheduled, run by the event loop: every
\* invoked callback awaits broadcast_positions
run_callbacks(connections, invoked, positions) ==
    IF invoked = {} THEN connections
    ELSE LET cb == CHOOSE x \in invoked : TRUE
         IN  run_callbacks(broadcast_positions(connections, positions),
                           invoked \ {cb}, positions)

\* sse_all_positions up to the first yield: add_client, register the closure
StreamOpen(c) ==
    /\ c \notin DOMAIN active_connections
    /\ active_connections' =
          [x \in DOMAIN active_connections \cup {c} |->
              IF x = c THEN <<>> ELSE active_connections[x]]
    /\ sse_callbacks' = sse_callbacks \cup {c}
    /\ UNCHANGED <<now, cfg, q_call, split_call, sse_out, cbvars, storevars, updvars,
                   crawlvars>>

\* the finally block of event_stream: remove_client, unregister the closure
StreamClose(c) ==
    /\ c \in DOMAIN active_connections
    /\ active_connections' = [x \in DOMAIN active_connections \ {c} |-> active_connections[x]]
    /\ sse_callbacks' = sse_callbacks \ {c}
    /\ UNCHANGED <<now, cfg, q_call, split_call, sse_out, cbvars, storevars, updvars,
                   crawlvars>>

\* the loop of event_stream: queue.get() and yield
StreamRead(c) ==
    /\ c \in DOMAIN active_connections
    /\ active_connections[c] # <<>>
    /\ active_connections' = [active_connections EXCEPT ![c] = Tail(@)]
    /\ UNCHANGED <<now, cfg, q_call, split_call, sse_callbacks, sse_out, cbvars, storevars,
                   updvars, crawlvars>>

\* the position broadcast of one update cycle in which the flights `changed`
\* moved, all of them cached: notify_position_changes, then the scheduled
\* coroutines run
StreamCycle(changed) ==
    /\ sse_callbacks # {}
    /\ \A c \in DOMAIN active_connections :
          Len(active_connections[c]) + Cardinality(sse_callbacks) <= MaxQueueLen
    /\ LET r == notify_position_changes(sse_callbacks, Addrs, changed, {})
       IN  /\ sse_callbacks' = r.callbacks
           /\ sse_out' = [NoPublications EXCEPT !.positions = r.pub]
           /\ active_connections' =
                 run_callbacks(active_connections, r.pub.invoked, r.pub.flights)
    /\ UNCHANGED <<now, cfg, q_call, split_call, cbvars, storevars, updvars, crawlvars>>

NextStream ==
    \/ \E c \in StreamClients : StreamOpen(c)
    \/ \E c \in StreamClients : StreamClose(c)
    \/ \E c \in StreamClients : StreamRead(c)
    \/ \E changed \in SUBSET Addrs \ {{}} : StreamCycle(changed)

SpecStream == InitCrawl /\ [][NextStream]_vars

\* ---------------------------------------------------------- split_flights
abs(x) == IF x < 0 THEN 0 - x ELSE x

\* timedelta(minutes=15), in minutes
fifteen_min == 15

\* a split also at a gap of exactly fifteen minutes
gap_splits_from_fifteen(tdiff) == abs(tdiff) >= fifteen_min

\* abs(tdiff) > fifteen_min
gap_splits(tdiff) == abs(tdiff) > fifteen_min

\* the for loop of split_flights, at index i (from 1 here, from 0 in the code)
RECURSIVE split_loop(_, _, _, _, _)
split_loop(positions, i, start_idx, current_flight_id, groups) ==
    IF i > Len(positions)
    THEN Append(groups, SubSeq(positions, start_idx, Len(positions)))
    ELSE LET tdiff == positions[i].timestmp - positions[i - 1].timestmp
         IN  IF gap_splits(tdiff) \/ positions[i].flight_id # current_flight_id
             THEN split_loop(positions, i + 1, i, positions[i].flight_id,
                             Append(groups, SubSeq(positions, start_idx, i - 1)))
             ELSE split_loop(positions, i + 1, start_idx, current_flight_id, groups)

\* the last append made also for an empty list
split_flights_appends_always(positions) ==
    IF positions = <<>> THEN << <<>> >>
    ELSE split_loop(positions, 2, 1, positions[1].flight_id, <<>>)

split_flights(positions) ==
    IF positions = <<>> THEN <<>>
    ELSE split_loop(positions, 2, 1, positions[1].flight_id, <<>>)

\* minutes between consecutive positions: below, at and above fifteen, and a
\* position that is older than the one before it
Gaps == {10, 15, 20, 0 - 20}
FlightIds == {1, 2}

RECURSIVE Stamp(_, _)
Stamp(gaps, k) == IF k = 1 THEN 0 ELSE Stamp(gaps, k - 1) + gaps[k - 1]

PositionsOf(ids, gaps) ==
    [k \in 1..Len(ids) |-> [flight_id |-> ids[k], timestmp |-> Stamp(gaps, k)]]

PositionLists ==
    {<<>>} \cup
    UNION {{PositionsOf(ids, gaps) : ids \in [1..n -> FlightIds], gaps \in [1..(n - 1) -> Gaps]} :
             n \in 1..MaxPositions}

SplitFlights ==
    /\ ~split_call.done
    /\ split_call' = [split_call EXCEPT !.done = TRUE,
                                        !.flights = split_flights(split_call.positions)]
    /\ UNCHANGED <<now, cfg, q_call, ssevars, cbvars, storevars, updvars, crawlvars>>

InitSplit ==
    /\ now = 0
    /\ cfg = DefaultConfig
    /\ InitBreakers
    /\ InitStore
    /\ InitCoordinator
    /\ InitCrawler
    /\ split_call \in {[NoSplit EXCEPT !.positions = p] : p \in PositionLists}

NextSplit == SplitFlights

SpecSplit == InitSplit /\ [][NextSplit]_vars

\* ------------------------------------- update cycles with SSE subscribers
\* the thread of the scheduler job
NotifyThreads == {1}

\* the reports of the feed: AB1 with every callsign and category, AB2 also
\* without lat/lon
NotifyReports(a) ==
    IF a = "AB1"
    THEN {Report(p, c, k) : p \in PosVals, c \in {"c1", "c2"}, k \in {1, 2}}
    ELSE {Report(p, "c1", 1) : p \in {0} \cup PosVals}

NotifyFeeds ==
    UNION {{f \in [S -> UNION {NotifyReports(a) : a \in S}] :
              \A a \in S : f[a] \in NotifyReports(a)} : S \in SUBSET Addrs}

\* both aircraft have been observed before and wait in the processing queue
InitNotify ==
    /\ now = 0
    /\ cfg = DefaultConfig
    /\ InitBreakers
    /\ queue = add_aircraft(add_aircraft(EmptyMap, 1, "AB1", "not_in_db"), 2, "AB2", "not_in_db")
    /\ next_id = 3
    /\ aircraft_db = EmptyMap
    /\ q_call = NoQCall
    /\ InitCoordinator
    /\ split_call = NoSplit
    /\ InitCrawler

NextNotify ==
    \/ \E cb \in Callbacks : SseRegister(cb)
    \/ \E cb \in Callbacks : SseUnregister(cb)
    \/ \E t \in NotifyThreads : UpdateAcquire(t)
    \/ \E t \in NotifyThreads : UpdateStart(t)
    \/ \E t \in NotifyThreads : UpdateFetchFrom(t, NotifyFeeds)
    \/ \E t \in NotifyThreads : UpdateSchedule(t)
    \/ \E t \in NotifyThreads : UpdateEnrichWith(t, Raisable)
    \/ \E t \in NotifyThreads : UpdateFinally(t)

SpecNotify == InitNotify /\ [][NextNotify]_vars

\* the update cycle with subscribers coming and going during the broadcast,
\* and with get_cached_flights keeping any of the flights; no call raises
\* the subscribers of SpecFanout
FanoutCallbacks == {"sync1", "async1"}

NextFanout ==
    \/ \E cb \in FanoutCallbacks : SseRegister(cb)
    \/ \E cb \in FanoutCallbacks : SseUnregister(cb)
    \/ \E t \in NotifyThreads : UpdateAcquire(t)
    \/ \E t \in NotifyThreads : UpdateStart(t)
    \/ \E t \in NotifyThreads : UpdateFetchFrom(t, NotifyFeeds)
    \/ \E t \in NotifyThreads : UpdateSchedule(t)
    \/ \E t \in NotifyThreads : UpdateEnrichOver(t, {}, SUBSET Addrs)
    \/ \E t \in NotifyThreads, cb \in FanoutCallbacks : UpdateEnrichRacing(t, cb)
    \/ \E t \in NotifyThreads : UpdateFinally(t)

SpecFanout == InitNotify /\ [][NextFanout]_vars

\* ------------------------------------------------- recent-activity log
\* get_recent_activity: list(self._activity_log)[:limit]
get_recent_activity(log, limit) == Take(log, limit)

\* the limits asked for: the dashboard's 20, and values around the log's sizes
ActivityLimits == {0, 1, 20, MAX_ACTIVITY_ENTRIES, MAX_ACTIVITY_ENTRIES + 1}

\* one more crawl outcome is recorded, later than the one before it
ActivityRecord ==
    /\ now < MaxActivities
    /\ activity_log' = record_activity(activity_log,
                          Activity("AB1", "not_found", NoAircraft, "not_in_db", 1))
    /\ now' = now + 1
    /\ UNCHANGED <<cfg, q_call, split_call, ssevars, cbvars, storevars, updvars, crawl_pc,
                   crawl_batch, crawl_count, last_crawl, source_enabled, saved_logs, act_call>>

ActivityGet(limit) ==
    /\ act_call' = [done |-> TRUE, limit |-> limit,
                    ret |-> get_recent_activity(activity_log, limit)]
    /\ UNCHANGED <<now, cfg, q_call, split_call, ssevars, cbvars, storevars, updvars, crawl_pc,
                   crawl_batch, crawl_count, last_crawl, source_enabled, activity_log,
                   saved_logs>>

NextActivity ==
    \/ ActivityRecord
    \/ \E limit \in ActivityLimits : ActivityGet(limit)

SpecActivity == InitCrawl /\ [][NextActivity]_vars

\* ------------------------------------------------------ claims C3 .. C6
\* backoff(n) as the specification states it
SpecBackoff(n) ==
    IF n = 0 THEN cfg.base_reset_seconds
    ELSE Min(cfg.base_reset_seconds * (2 ^ (n - 1)), cfg.max_reset_seconds)

\* C3: once failure_threshold consecutive failures have been recorded with no
\* success in between, is_available returns false until backoff(trip_count)
\* seconds have passed since the last recorded failure, and true from then on.
C3_TrippedBlocksUntilBackoff ==
    \A s \in Sources :
        ( /\ cb_call.op = "is_available"
          /\ cb_call.src = s
          /\ cb_call.at = now
          /\ breakers[s].consecutive_failures >= cfg.failure_threshold )
        => ( cb_call.ret <=>
               now - breakers[s].last_failure_time >= SpecBackoff(breakers[s].trip_count) )

C3_Witness ==
    \E s \in Sources :
        /\ cb_call.op = "is_available" /\ cb_call.src = s /\ cb_call.at = now
        /\ cb_call.from = OPEN /\ cb_call.ret
        /\ breakers[s].consecutive_failures >= cfg.failure_threshold
        /\ breakers[s].trip_count >= 2
        /\ now - breakers[s].last_failure_time = SpecBackoff(breakers[s].trip_count)

\* C4: from HALF_OPEN a recorded success closes the breaker and resets
\* consecutive_failures and trip_count to 0 (the wait is the base again); a
\* recorded failure reopens it with trip_count one higher, doubling the wait
\* up to the cap.
C4_HalfOpenProbeOutcome ==
    [][\A s \in Sources :
        LET b == breakers[s]
            c == breakers'[s]
        IN  /\ ( b.state = HALF_OPEN /\ cb_call'.op = "record_success" /\ cb_call'.src = s )
               => ( /\ c.state = CLOSED
                    /\ c.consecutive_failures = 0
                    /\ c.trip_count = 0
                    /\ get_current_reset_seconds(c) = cfg.base_reset_seconds )
            /\ ( b.state = HALF_OPEN /\ cb_call'.op = "record_failure" /\ cb_call'.src = s )
               => ( /\ c.state = OPEN
                    /\ c.trip_count = b.trip_count + 1
                    /\ get_current_reset_seconds(c)
                         = Min(2 * get_current_reset_seconds(b), cfg.max_reset_seconds) )
      ]_vars

C4_Witness ==
    \E s \in Sources :
        /\ cb_call.src = s /\ cb_call.from = HALF_OPEN
        /\ cb_call.op = "record_success"
        /\ breakers[s].total_failures >= 2
        /\ breakers[s].trip_count = 0

\* C5: between entering HALF_OPEN and the next record_success/record_failure
\* is_available returns true for one request only.
C5_SingleProbe ==
    \A s \in Sources : probes[s] <= 1

InCycle(t) == upc[t] # "idle"

\* C1: at most one update() call is past the lock acquisition at any time.
C1_OneCycleInFlight ==
    /\ Cardinality({t \in Threads : InCycle(t)}) <= 1
    /\ \A t \in Threads : InCycle(t) => update_lock = t

C1_Witness ==
    \E t \in Threads :
        /\ upc[t] = "finally" /\ update_lock = t
        /\ skip_log >= 1
        /\ DOMAIN queue # {}

\* C2: a call that finds a cycle in progress returns at once, is not queued
\* for later, and changes neither is_updating, the change trackers, the
\* flight records, the position cache nor the processing queue.
C2_SkippedCallMutatesNothing ==
    [][skip_log' # skip_log
        => /\ update_lock # NoOwner
           /\ UNCHANGED <<upc, update_lock, is_updating, upd_positions,
                          pm_changes, flights, pos_cache, queue, next_id, aircraft_db>>
      ]_vars

C2_Witness ==
    /\ skip_log >= 1
    /\ is_updating
    /\ \E t \in Threads : upc[t] = "enrich" /\ update_lock = t

\* ------------------------------------------------------ claims C7 .. C10
\* some source answered the crawl c with log status st
HasLog(c, st) == \E i \in 1..Len(c.logs) : c.logs[i].status = st

\* the step crawls one address of the batch
CrawledOne == crawl_count' # crawl_count

C8_ServiceErrorDisposition ==
    [][ ( /\ CrawledOne
          /\ ~last_crawl'.aircraft.present
          /\ ~HasLog(last_crawl', "not_found")
          /\ \/ HasLog(last_crawl', "service_error")
             \/ HasLog(last_crawl', "exception")
             \/ \A i \in 1..Len(last_crawl'.logs) :
                    last_crawl'.logs[i].status = "skipped_circuit_breaker" )
        => LET a == Upper(last_crawl'.icao24)
           IN  /\ a \in DOMAIN queue /\ a \in DOMAIN queue'
               /\ queue'[a].failure_type = FT_SERVICE_ERROR
               /\ queue'[a].last_attempt_time = now
               /\ queue'[a].query_attempts = queue[a].query_attempts ]_vars

\* every source disabled: no source is queried, the entry takes a service error
C8_Witness ==
    /\ last_crawl.icao24 # None
    /\ \A s \in ConfiguredSources : ~source_enabled[s]
    /\ last_crawl.logs = <<>>
    /\ Upper(last_crawl.icao24) \in DOMAIN queue
    /\ queue[Upper(last_crawl.icao24)].failure_type = FT_SERVICE_ERROR
    /\ queue[Upper(last_crawl.icao24)].last_attempt_time = last_crawl.at

\* C9: an address that received a service-error disposition is selected by no
\* later crawl cycle until service_error_reset_hours have elapsed since the
\* last_attempt_time recorded with the service error, whatever its attempt
\* count is.
C9_RetryOnlyAfterCooldown ==
    [][ crawl_pc = "idle"
        => \A i \in 1..Len(crawl_batch') :
             LET a == Upper(crawl_batch'[i])
             IN  ( a \in DOMAIN queue /\ queue[a].failure_type = FT_SERVICE_ERROR )
                 => now - queue[a].last_attempt_time >= cfg.service_error_reset_hours ]_vars

QStep(op) == q_call' # q_call /\ q_call'.op = op

\* C17: add_aircraft is idempotent: after an add for an address, in whatever
\* letter case, the queue holds exactly one entry for that address, and an add
\* for an address already queued leaves every existing entry (attempts, failure
\* type, last-attempt time, crawl reason) as it was.
C17_AddIdempotent ==
    [][QStep("add_aircraft") =>
         LET a == Upper(q_call'.icao24)
         IN  /\ Cardinality({k \in DOMAIN queue' : Upper(k) = a}) = 1
             /\ DOMAIN queue' = DOMAIN queue \cup {a}
             /\ \A k \in DOMAIN queue :
                   /\ queue'[k].query_attempts = queue[k].query_attempts
                   /\ queue'[k].failure_type = queue[k].failure_type
                   /\ queue'[k].last_attempt_time = queue[k].last_attempt_time
                   /\ queue'[k].crawl_reason = queue[k].crawl_reason]_vars

\* an add in lower case has just been made for an entry that already has a
\* failed attempt and was queued for another reason
C17_Witness ==
    /\ q_call.op = "add_aircraft"
    /\ q_call.icao24 = "ab1"
    /\ "AB1" \in DOMAIN queue
    /\ queue["AB1"].query_attempts = 1
    /\ queue["AB1"].failure_type = FT_NOT_FOUND
    /\ queue["AB1"].crawl_reason = "stale"

\* C18: record_not_found on a queued address adds exactly 1 to that entry's
\* query_attempts and sets its failure type to not-found; no entry's failure
\* type becomes none, no other entry changes and no entry appears or goes.
C18_NotFoundIncrements ==
    [][QStep("record_not_found") =>
         LET a == Upper(q_call'.icao24)
         IN  /\ DOMAIN queue' = DOMAIN queue
             /\ a \in DOMAIN queue =>
                   /\ queue'[a].query_attempts = queue[a].query_attempts + 1
                   /\ queue'[a].failure_type = FT_NOT_FOUND
             /\ \A k \in DOMAIN queue :
                   /\ queue'[k].failure_type = FT_NONE => queue[k].failure_type = FT_NONE
                   /\ k # a => queue'[k] = queue[k]]_vars

\* a second not-found has just been recorded for an entry, next to an entry
\* that is still new
C18_Witness ==
    /\ q_call.op = "record_not_found"
    /\ Upper(q_call.icao24) = "AB1"
    /\ DOMAIN queue = {"AB1", "AB2"}
    /\ queue["AB1"].query_attempts = 2
    /\ queue["AB1"].failure_type = FT_NOT_FOUND
    /\ queue["AB1"].last_attempt_time = now
    /\ queue["AB2"].failure_type = FT_NONE

\* C19: record_service_error sets the entry's failure type to service-error
\* and its last_attempt_time to now; the entry's query_attempts and every field
\* of every other entry stay as they were.
C19_ServiceErrorKeepsAttempts ==
    [][QStep("record_service_error") =>
         LET a == Upper(q_call'.icao24)
         IN  /\ DOMAIN queue' = DOMAIN queue
             /\ a \in DOMAIN queue =>
                   /\ queue'[a].failure_type = FT_SERVICE_ERROR
                   /\ queue'[a].last_attempt_time = now
                   /\ queue'[a].query_attempts = queue[a].query_attempts
             /\ \A k \in DOMAIN queue : k # a => queue'[k] = queue[k]]_vars

\* a service error has just been recorded, at a later time, for an entry that
\* had one not-found attempt, next to another entry
C19_Witness ==
    /\ q_call.op = "record_service_error"
    /\ Upper(q_call.icao24) = "AB1"
    /\ DOMAIN queue = {"AB1", "AB2"}
    /\ queue["AB1"].query_attempts = 1
    /\ queue["AB1"].failure_type = FT_SERVICE_ERROR
    /\ queue["AB1"].last_attempt_time = now
    /\ now > 0
    /\ queue["AB2"].failure_type = FT_NOT_FOUND

\* eligibility as the selection rule states it: no attempt yet, or not found
\* with attempts below the cap, or a service error whose cooldown has passed
C20_Eligible(e) ==
    \/ e.query_attempts = 0
    \/ e.failure_type = FT_NOT_FOUND /\ e.query_attempts < cfg.max_attempts
    \/ /\ e.failure_type = FT_SERVICE_ERROR
       /\ e.last_attempt_time # NoTime
       /\ e.last_attempt_time + cfg.service_error_reset_hours < now

\* e does not come after f: attempts, then last-attempt time (none first),
\* then insertion order
C20_NotAfter(e, f) ==
    \/ e.query_attempts < f.query_attempts
    \/ e.query_attempts = f.query_attempts /\ e.last_attempt_time < f.last_attempt_time
    \/ /\ e.query_attempts = f.query_attempts
       /\ e.last_attempt_time = f.last_attempt_time
       /\ e.id <= f.id

\* ret is the answer the selection rule prescribes for this queue and limit
C20_FirstEligible(ret, limit) ==
    LET eligible == {a \in DOMAIN queue : C20_Eligible(queue[a])}
        returned == {ret[i] : i \in 1..Len(ret)}
    IN  /\ returned \subseteq eligible
        /\ Len(ret) = Min(limit, Cardinality(eligible))
        /\ Cardinality(returned) = Len(ret)
        /\ \A i, j \in 1..Len(ret) : i < j => C20_NotAfter(queue[ret[i]], queue[ret[j]])
        /\ \A a \in returned, b \in eligible \ returned : C20_NotAfter(queue[a], queue[b])

\* C20: whatever the queue, the time and the limit, get_aircraft_for_processing
\* returns exactly the first `limit` eligible entries in the order (attempts,
\* last-attempt time, insertion); no ineligible entry is returned.
C20_FirstEligibleInOrder ==
    \A limit \in 1..cfg.batch_size :
        C20_FirstEligible(get_aircraft_for_processing(queue, limit), limit)

\* a call with limit 1 on two eligible entries has returned the one queued
\* later, because the one queued first already has a not-found attempt
C20_Witness ==
    /\ q_call.op = "get_aircraft_for_processing"
    /\ q_call.limit = 1
    /\ q_call.ret = <<"AB2">>
    /\ q_call.ret = get_aircraft_for_processing(queue, 1)
    /\ DOMAIN queue = {"AB1", "AB2"}
    /\ queue["AB1"].id < queue["AB2"].id
    /\ queue["AB1"].query_attempts = 1
    /\ queue["AB1"].failure_type = FT_NOT_FOUND
    /\ queue["AB2"].query_attempts = 0

\* ------------------------------------------------------ claims C11 .. C16
\* every configured source was queried in crawl c and answered NOT_FOUND
AllNotFound(c) ==
    /\ Len(c.logs) = Len(cfg.sources)
    /\ \A i \in 1..Len(c.logs) : c.logs[i].status = "not_found"

\* an entry whose not-found attempts have reached the cap
Exhausted(e) == e.failure_type = FT_NOT_FOUND /\ e.query_attempts >= cfg.max_attempts

\* what the start of a crawl cycle (reset, cleanup, batch selection) makes of
\* the queue, and the batch it selects
CycleStart ==
    LET q2 == cleanup_failed_aircraft(reset_service_error_attempts(queue))
    IN  [queue |-> q2, batch |-> get_aircraft_for_processing(q2, cfg.batch_size)]

LogStatuses(c) == [i \in 1..Len(c.logs) |-> c.logs[i].status]
LogSources(c) == [i \in 1..Len(c.logs) |-> c.logs[i].source]

\* crawl c of the three sources: A failed with a service error, B and C each
\* returned partial data, together registration, type code and operator
MergeScenario(c) ==
    /\ LogSources(c) = <<"A", "B", "C">>
    /\ LogStatuses(c) = <<"service_error", "partial_data", "partial_data">>
    /\ c.logs[2].payload = {"reg", "type_code"}
    /\ c.logs[3].payload = {"operator"}
    /\ c.aircraft.present
    /\ c.aircraft.fields = {"reg", "type_code", "operator"}
    /\ c.insert = "ok"

\* C12: with A answering SERVICE_ERROR, B PARTIAL (registration + type code)
\* and C PARTIAL (operator), the merged record is attributed to B+C and
\* persisted, the queue entry is removed, the activity is logged as "merged",
\* A's breaker gets one failure and B's and C's one success each.
C12_MergedFromBAndC ==
    [][ (CrawledOne /\ MergeScenario(last_crawl')) =>
          LET a == last_crawl'.icao24
          IN  /\ last_crawl'.aircraft.source = <<"B", "C">>
              /\ a \in DOMAIN aircraft_db'
              /\ aircraft_db'[a].fields = {"reg", "type_code", "operator"}
              /\ aircraft_db'[a].source = <<"B", "C">>
              /\ a \in DOMAIN queue /\ a \notin DOMAIN queue'
              /\ activity_log'[1].icao24 = a
              /\ activity_log'[1].status = "merged"
              /\ breakers'["A"].total_failures = breakers["A"].total_failures + 1
              /\ breakers'["A"].total_successes = breakers["A"].total_successes
              /\ \A s \in {"B", "C"} :
                    /\ breakers'[s].total_successes = breakers[s].total_successes + 1
                    /\ breakers'[s].total_failures = breakers[s].total_failures ]_vars

\* the place of source s in the configured order
Pos(s) == CHOOSE i \in 1..Len(cfg.sources) : cfg.sources[i] = s

\* crawl c queried source s (a skip on an open circuit is logged, not a query)
Queried(c, s) ==
    \E i \in 1..Len(c.logs) :
        c.logs[i].source = s /\ c.logs[i].status # "skipped_circuit_breaker"

\* breaker b lets no request through now: it is open and its backoff runs
Unavailable(b) ==
    b.state = OPEN /\ now - b.last_failure_time < get_current_reset_seconds(b)

\* C13: in the crawl of one address the sources appear in the configured
\* order, each at most once; a source that is disabled or whose breaker is not
\* available is not queried and its breaker is left exactly as it was.
C13_OrderedAtMostOnce ==
    [][ CrawledOne =>
          LET c == last_crawl'
          IN  /\ \A i, j \in 1..Len(c.logs) :
                    i < j => /\ c.logs[i].source \in ConfiguredSources
                             /\ c.logs[j].source \in ConfiguredSources
                             /\ Pos(c.logs[i].source) < Pos(c.logs[j].source)
              /\ \A s \in Sources :
                    /\ breakers'[s].total_failures + breakers'[s].total_successes
                         <= breakers[s].total_failures + breakers[s].total_successes + 1
                    /\ (s \notin ConfiguredSources \/ ~source_enabled[s]
                        \/ Unavailable(breakers[s]))
                       => ~Queried(c, s) /\ breakers'[s] = breakers[s] ]_vars

\* a crawl in which A was skipped on its open circuit while B was disabled:
\* neither was queried
C13_Witness ==
    /\ last_crawl.icao24 # None
    /\ last_crawl.logs = <<Log("A", "skipped_circuit_breaker")>>
    /\ last_crawl.status = "service_error"
    /\ ~source_enabled["B"]
    /\ breakers["A"].state = OPEN
    /\ breakers["B"].total_failures + breakers["B"].total_successes = 0

\* the status logged for source s in crawl c, None when s has no log entry
LoggedStatus(c, s) ==
    IF \E i \in 1..Len(c.logs) : c.logs[i].source = s
    THEN c.logs[CHOOSE i \in 1..Len(c.logs) : c.logs[i].source = s].status
    ELSE None

Delivered(c, i) == UNION {c.logs[k].payload : k \in 1..i}

\* the stop condition after the first i log entries of crawl c: entry i is a
\* complete record, or the data delivered so far is complete
StopAt(c, i) ==
    \/ c.logs[i].status = "success"
    \/ /\ c.logs[i].status = "partial_data"
       /\ {"reg", "type_code"} \subseteq Delivered(c, i)
       /\ Delivered(c, i) \cap {"type_desc", "operator"} # {}

C16_ExceptionKeepsBatch ==
    [][ (CrawledOne /\ last_crawl'.status = "raised") =>
          LET a == last_crawl'.icao24
          IN  /\ a = Head(crawl_batch)
              /\ DOMAIN queue' = DOMAIN queue
              /\ queue'[a].failure_type = FT_SERVICE_ERROR
              /\ queue'[a].last_attempt_time = now
              /\ queue'[a].query_attempts = queue[a].query_attempts
              /\ \A k \in DOMAIN queue : k # a => queue'[k] = queue[k]
              /\ aircraft_db' = aircraft_db
              /\ crawl_batch' = Tail(crawl_batch)
              /\ crawl_batch' # <<>> => crawl_pc' = "loop" ]_vars

\* the first address of a batch of two has raised after a source delivered
\* data for it; the loop is at the second address
C16_Witness ==
    /\ last_crawl.icao24 = "AB1"
    /\ last_crawl.status = "raised"
    /\ last_crawl.aircraft.present
    /\ DOMAIN queue = {"AB1", "AB2"}
    /\ queue["AB1"].failure_type = FT_SERVICE_ERROR
    /\ queue["AB1"].last_error = "exception"
    /\ queue["AB1"].query_attempts = 0
    /\ queue["AB2"].failure_type = FT_NONE
    /\ aircraft_db = EmptyMap
    /\ crawl_batch = <<"AB2">>
    /\ crawl_pc = "loop"

\* ------------------------------------------------------ claims C21 .. C22
\* C21: cleanup_failed_aircraft removes exactly the entries that are not-found
\* with attempts at or above max_attempts and returns their number; the other
\* entries, among them every service-error or none entry whatever its
\* attempts, stay as they were.
C21_CleanupExactlyExhausted ==
    [][QStep("cleanup_failed_aircraft") =>
         LET gone == {a \in DOMAIN queue :
                        /\ queue[a].failure_type = FT_NOT_FOUND
                        /\ queue[a].query_attempts >= cfg.max_attempts}
         IN  /\ DOMAIN queue' = DOMAIN queue \ gone
             /\ \A a \in DOMAIN queue' : queue'[a] = queue[a]
             /\ q_call'.count = Cardinality(gone)
             /\ \A a \in DOMAIN queue :
                   queue[a].failure_type \in {FT_SERVICE_ERROR, FT_NONE}
                      => a \in DOMAIN queue']_vars

\* a cleanup has just removed one entry and kept a service-error entry whose
\* attempts are at the cap
C21_Witness ==
    /\ q_call.op = "cleanup_failed_aircraft"
    /\ q_call.count = 1
    /\ \E a \in DOMAIN queue :
          /\ DOMAIN queue = {a}
          /\ queue[a].failure_type = FT_SERVICE_ERROR
          /\ queue[a].query_attempts >= cfg.max_attempts

\* the cooldown of service-error entry e has elapsed
C22_CooledDown(e) ==
    /\ e.failure_type = FT_SERVICE_ERROR
    /\ e.last_attempt_time # NoTime
    /\ e.last_attempt_time + cfg.service_error_reset_hours < now

\* C22: reset_service_error_attempts sets the failure type to none for exactly
\* the service-error entries whose last attempt is older than the cooldown,
\* returns their number, and leaves every other entry unchanged.
C22_ResetExactlyCooledDown ==
    [][QStep("reset_service_error_attempts") =>
         /\ DOMAIN queue' = DOMAIN queue
         /\ \A a \in DOMAIN queue :
               IF C22_CooledDown(queue[a])
               THEN queue'[a].failure_type = FT_NONE
               ELSE queue'[a] = queue[a]
         /\ q_call'.count = Cardinality({a \in DOMAIN queue : C22_CooledDown(queue[a])})]_vars

\* a reset has just cleared one entry, next to a service-error entry that is
\* still cooling down and a count of 1
C22_Witness ==
    /\ q_call.op = "reset_service_error_attempts"
    /\ q_call.count = 1
    /\ DOMAIN queue = {"AB1", "AB2"}
    /\ queue["AB1"].failure_type = FT_NONE
    /\ queue["AB1"].last_attempt_time # NoTime
    /\ queue["AB2"].failure_type = FT_SERVICE_ERROR
    /\ queue["AB2"].last_attempt_time = now

\* ------------------------------------------------------ claims C23 .. C25
\* the addresses handed to the schedule_aircraft_for_processing call just made
Observed(c) == {c.ret[i] : i \in 1..Len(c.ret)}

\* address x was put in the queue by this step, with reason r
QueuedAs(x, r) ==
    /\ Upper(x) \notin DOMAIN queue
    /\ Upper(x) \in DOMAIN queue'
    /\ queue'[Upper(x)].crawl_reason = r

\* C23: an observed address that is not in the queue and whose look-up does not
\* fail is queued as not_in_db when no record is stored for it, and as
\* no_timestamp when the stored record has no modification timestamp, whatever
\* the thresholds and the time.
C23_QueuedWithoutRecordOrTimestamp ==
    [][QStep("schedule_aircraft_for_processing") =>
         \A x \in Observed(q_call') \ q_call'.bad :
            Upper(x) \notin DOMAIN queue =>
               /\ Upper(x) \notin DOMAIN aircraft_db => QueuedAs(x, "not_in_db")
               /\ (/\ Upper(x) \in DOMAIN aircraft_db
                   /\ aircraft_db[Upper(x)].last_modified = NoTime)
                  => QueuedAs(x, "no_timestamp")]_vars

\* with the longest thresholds and no time passed, one address without record
\* and one with a record without timestamp have both been queued
C23_Witness ==
    /\ q_call.op = "schedule_aircraft_for_processing"
    /\ q_call.bad = {}
    /\ cfg.staleness_days = MaxDays /\ cfg.incomplete_staleness_days = MaxDays
    /\ now = 0
    /\ DOMAIN aircraft_db = {"AB2"}
    /\ aircraft_db["AB2"].last_modified = NoTime
    /\ DOMAIN queue = {"AB1", "AB2"}
    /\ queue["AB1"].crawl_reason = "not_in_db"
    /\ queue["AB2"].crawl_reason = "no_timestamp"

\* some critical field of the stored record is missing or blank
C24_Incomplete(doc) == Fields \ doc.fields # {} \/ Fields \cap doc.blank # {}

\* C24: a stored record with a modification timestamp is queued as
\* incomplete_stale exactly when a critical field is missing or blank and the
\* timestamp is older than the incomplete threshold, as stale only when it is
\* complete and older than the general threshold, and not at all otherwise.
C24_StalenessRules ==
    [][QStep("schedule_aircraft_for_processing") =>
         \A x \in Observed(q_call') \ q_call'.bad :
            LET a == Upper(x)
            IN  (/\ a \notin DOMAIN queue
                 /\ a \in DOMAIN aircraft_db
                 /\ aircraft_db[a].last_modified # NoTime) =>
                   LET doc == aircraft_db[a]
                       incomplete_old ==
                           /\ C24_Incomplete(doc)
                           /\ doc.last_modified + cfg.incomplete_staleness_days < now
                       complete_old ==
                           /\ ~C24_Incomplete(doc)
                           /\ doc.last_modified + cfg.staleness_days < now
                   IN  /\ QueuedAs(x, "incomplete_stale") <=> incomplete_old
                       /\ QueuedAs(x, "stale") => complete_old
                       /\ (~incomplete_old /\ ~complete_old) => a \notin DOMAIN queue']_vars

\* C25: in one call the addresses whose look-up raises are queued as unknown,
\* and every other observed address is classified as if no error had
\* occurred: queued with the reason the rules give it, or left out.
C25_ErrorKeepsBatch ==
    [][QStep("schedule_aircraft_for_processing") =>
         \A x \in Observed(q_call') :
            Upper(x) \notin DOMAIN queue =>
               IF x \in q_call'.bad
               THEN QueuedAs(x, "unknown")
               ELSE LET r == classify(queue, aircraft_db, x, FALSE)
                    IN  IF r = None THEN Upper(x) \notin DOMAIN queue'
                        ELSE QueuedAs(x, r)]_vars

\* the look-up of the first address of the call raised: it is queued as
\* unknown, and the second address is queued as incomplete and stale
C25_Witness ==
    /\ q_call.op = "schedule_aircraft_for_processing"
    /\ q_call.ret = <<"AB1", "AB2">>
    /\ q_call.bad = {"AB1"}
    /\ DOMAIN queue = {"AB1", "AB2"}
    /\ queue["AB1"].crawl_reason = "unknown"
    /\ queue["AB1"].id < queue["AB2"].id
    /\ queue["AB2"].crawl_reason = "incomplete_stale"

\* ------------------------------------------------------------- claim C26
\* the positions of all groups, one after the other
RECURSIVE Flatten(_)
Flatten(groups) == IF groups = <<>> THEN <<>> ELSE Head(groups) \o Flatten(Tail(groups))

\* the indices k such that a group ends with position k and the next starts
\* with position k+1
RECURSIVE SplitPoints(_)
SplitPoints(groups) ==
    IF Len(groups) <= 1 THEN {}
    ELSE {Len(Head(groups))} \cup {Len(Head(groups)) + k : k \in SplitPoints(Tail(groups))}

\* minutes between position k and position k+1
GapAfter(positions, k) == abs(positions[k + 1].timestmp - positions[k].timestmp)

SameFlight(positions) ==
    \A i, j \in 1..Len(positions) : positions[i].flight_id = positions[j].flight_id

\* C26: the groups of split_flights are the positions in their order, cut
\* between k and k+1 exactly when the gap is above 15 minutes or the flight id
\* differs; for one flight a single gap of 20 minutes among gaps of 10 and 15
\* gives two groups cut at that gap, and gaps of 10 and 15 only give one group.
C26_SplitExactlyAboveFifteen ==
    split_call.done =>
        LET positions == split_call.positions
            groups == split_call.flights
            inner == 1..(Len(positions) - 1)
            long == {k \in inner : GapAfter(positions, k) = 20}
        IN  /\ Flatten(groups) = positions
            /\ \A j \in 1..Len(groups) : groups[j] # <<>>
            /\ SplitPoints(groups) =
                 {k \in inner : \/ GapAfter(positions, k) > 15
                                \/ positions[k + 1].flight_id # positions[k].flight_id}
            /\ (SameFlight(positions) /\ Cardinality(long) = 1) =>
                  /\ Len(groups) = 2
                  /\ SplitPoints(groups) = long
            /\ (SameFlight(positions) /\ positions # <<>> /\ long = {}) => Len(groups) = 1

\* one flight, 15 minutes between the first two positions and 20 before the
\* third: the first two positions are one group, the third is another
C26_Witness ==
    /\ split_call.done
    /\ Len(split_call.positions) = 3
    /\ SameFlight(split_call.positions)
    /\ GapAfter(split_call.positions, 1) = 15
    /\ split_call.positions[3].timestmp - split_call.positions[2].timestmp = 20
    /\ split_call.flights = <<SubSeq(split_call.positions, 1, 2), SubSeq(split_call.positions, 3, 3)>>

\* ------------------------------------------------------ claims C27 .. C30
\* thread t leaves the enrichment branch of its cycle in this step
EnrichStep(t) == upc[t] = "enrich" /\ upc'[t] = "finally"

\* the reports thread t hands to add_positions
ReportsOf(t) == valid_positions(filter_military_only(upd_positions[t]))

\* the report of cached flight a differs from the cached one in the callsign only
CallsignOnly(t, a) ==
    /\ a \in DOMAIN pos_cache
    /\ a \in DOMAIN ReportsOf(t)
    /\ ReportsOf(t)[a].callsign # pos_cache[a].callsign
    /\ ReportsOf(t)[a].pos = pos_cache[a].pos
    /\ ReportsOf(t)[a].category = pos_cache[a].category

\* C27: in a cycle that runs without error while a subscriber is registered, a
\* cached flight whose report differs in the callsign only is in a published
\* callsign notification and in no published position notification.
C27_CallsignOnlyNotification ==
    [][\A t \in NotifyThreads :
          (EnrichStep(t) /\ upd_error' = NoError /\ sse_callbacks # {}) =>
             \A a \in Addrs :
                CallsignOnly(t, a) =>
                   /\ sse_out'.callsigns.n >= 1
                   /\ a \in sse_out'.callsigns.flights
                   /\ a \notin sse_out'.positions.flights]_vars

\* C28: in a cycle each of the three notifications is published at most once,
\* only with a subscriber registered and a non-empty change set of its type,
\* and exactly once when both hold and no error was thrown, however many
\* subscribers there are.
C28_EachTypeOnce ==
    [][\A t \in NotifyThreads :
          EnrichStep(t) =>
             /\ sse_out'.positions.n <= 1
             /\ sse_out'.categories.n <= 1
             /\ sse_out'.callsigns.n <= 1
             /\ sse_out'.positions.n >= 1 => (sse_callbacks # {} /\ pm_changes' # {})
             /\ sse_out'.categories.n >= 1 =>
                   (sse_callbacks' # {} /\ DOMAIN pm_category_changes' # {})
             /\ sse_out'.callsigns.n >= 1 =>
                   (sse_callbacks' # {} /\ DOMAIN pm_callsign_changes' # {})
             /\ (upd_error' = NoError /\ ReportsOf(t) # EmptyMap) =>
                   /\ (sse_callbacks # {} /\ pm_changes' # {}) => sse_out'.positions.n = 1
                   /\ (sse_callbacks' # {} /\ DOMAIN pm_category_changes' # {})
                         => sse_out'.categories.n = 1
                   /\ (sse_callbacks' # {} /\ DOMAIN pm_callsign_changes' # {})
                         => sse_out'.callsigns.n = 1]_vars

\* C29: in a broadcast of positions every registered callback that does not
\* fail is invoked, and every callback that fails is no longer registered
\* when the broadcast is over.
C29_FailingCallbackUnregistered ==
    [][\A t \in NotifyThreads :
          (EnrichStep(t) /\ sse_out'.positions.n = 1) =>
             /\ sse_callbacks \ sse_out'.positions.failed \subseteq sse_out'.positions.invoked
             /\ sse_out'.positions.failed \cap sse_callbacks' = {}]_vars

\* C30: an error (not an interrupt) thrown by update_flights, add_positions or
\* the broadcast is caught and logged in update(), a space-quota error of the
\* store on its own log line; the cycle goes on to its finally block, after
\* which the coordinator is idle with the lock free, and a next call of
\* update() can take the lock.
C30_ErrorCaughtInCycle ==
    /\ [][\A t \in NotifyThreads :
             /\ (EnrichStep(t) /\ upd_error'.stage \in Stages
                 /\ upd_error'.type # "KeyboardInterrupt") =>
                   /\ upd_error'.caught
                   /\ upd_error'.log =
                        IF upd_error'.type = "DatabaseException" THEN "quota" ELSE "exception"
                   /\ upd_error'.type # "OperationFailure" \/ upd_error'.stage = "broadcast"
             /\ (upc[t] = "finally" /\ upc'[t] # "finally" /\ upd_error.caught) =>
                   /\ upc'[t] = "idle"
                   /\ update_lock' = NoOwner
                   /\ ~is_updating']_vars
    /\ [](\A t \in NotifyThreads :
             (upc[t] = "idle" /\ upd_error.caught) => ENABLED UpdateAcquire(t))

\* the cycle after one in which add_positions ran into the space quota has
\* taken the lock and is about to start
C30_Witness ==
    \E t \in NotifyThreads :
        /\ upc[t] = "start"
        /\ update_lock = t
        /\ upd_error.stage = "positions"
        /\ upd_error.type = "DatabaseException"
        /\ upd_error.log = "quota"

\* ------------------------------------------------------------- claim C31
\* C31: the activity log never holds more than MAX_ACTIVITY_ENTRIES entries,
\* it holds the most recently recorded ones, newest first (the k-th entry is
\* the k-th last recorded, so a record on a full log discards the oldest),
\* and get_recent_activity(limit) returns its first `limit` entries, all of
\* them when there are fewer.
C31_ActivityLogBounded ==
    /\ [](/\ Len(activity_log) <= 50
          /\ Len(activity_log) = Min(now, 50)
          /\ \A k \in 1..Len(activity_log) : activity_log[k].timestamp = now - k)
    /\ [][act_call' # act_call =>
            /\ Len(act_call'.ret) = Min(act_call'.limit, Len(activity_log))
            /\ \A k \in 1..Len(act_call'.ret) : act_call'.ret[k] = activity_log[k]]_vars

\* a 51st outcome was recorded on the full log, and the 20 newest were asked for
C31_Witness ==
    /\ now = 51
    /\ Len(activity_log) = 50
    /\ activity_log[50].timestamp = 1
    /\ act_call.done
    /\ act_call.limit = 20
    /\ Len(act_call.ret) = 20
    /\ act_call.ret[1].timestamp = 50

\* ---------------------------------------------------------------- claim C32
\* C32: every update() call that took the lock gives it back on every way out
\* (nothing fetched, the fetch or the hand-off to the classifier raising,
\* nothing left after the military filter, an error caught in the cycle): a
\* thread leaves a cycle only through the finally block, which clears
\* is_updating and frees the lock; is_updating is false whenever the lock is
\* free; an idle thread never holds the lock, so a call is skipped only while
\* another thread is inside a cycle and a call made when all are idle starts.
C32_LockReleasedOnEveryExit ==
    /\ [](update_lock = NoOwner => ~is_updating)
    /\ [](\A t \in Threads : upc[t] = "idle" <=> update_lock # t)
    /\ []((\A t \in Threads : upc[t] = "idle") =>
             \A t \in Threads : ENABLED UpdateAcquire(t))
    /\ [][(\A t \in Threads :
              (upc[t] # "idle" /\ upc'[t] = "idle") =>
                (upc[t] = "finally" /\ update_lock' = NoOwner /\ ~is_updating'))
           /\ (skip_log' # skip_log =>
                (update_lock # NoOwner /\ upc[update_lock] # "idle"))]_vars

\* the hand-off to the classifier raised, the error left update(), and the
\* lock is free again
C32_Witness ==
    /\ upd_error.stage = "schedule"
    /\ ~upd_error.caught
    /\ \A t \in Threads : upc[t] = "idle"
    /\ update_lock = NoOwner
    /\ ~is_updating
    /\ skip_log > 0

\* ---------------------------------------------------------------- claim C33
\* C33: the breakers of different sources are independent: a call of
\* is_source_available, record_success or record_failure for one source
\* leaves the breaker of every other source as it was.
C33_BreakersIndependent ==
    [][breakers' # breakers =>
         \A other \in Sources \ {cb_call'.src} : breakers'[other] = breakers[other]]_vars

\* B's breaker is open after its failures while A's, which recorded a
\* success in between, is closed and has no failure
C33_Witness ==
    /\ breakers["B"].state = OPEN
    /\ breakers["B"].total_failures = cfg.failure_threshold
    /\ breakers["A"].state = CLOSED
    /\ breakers["A"].total_failures = 0
    /\ breakers["A"].total_successes = 1
    /\ cb_call.op = "is_available"
    /\ cb_call.src = "B"
    /\ ~cb_call.ret

\* ---------------------------------------------------------------- claim C34
\* C34: with record_success and record_failure called only for a query that
\* is_available admitted, and failure_threshold >= 1: a CLOSED breaker has
\* trip_count 0 and fewer consecutive failures than the threshold, and an
\* OPEN or HALF_OPEN breaker has trip_count >= 1.
C34_StateMatchesCounters ==
    \A s \in CBSources :
        /\ cfg.failure_threshold >= 1
        /\ breakers[s].state = CLOSED =>
              /\ breakers[s].trip_count = 0
              /\ breakers[s].consecutive_failures < cfg.failure_threshold
        /\ breakers[s].state \in {OPEN, HALF_OPEN} => breakers[s].trip_count >= 1

\* a breaker that tripped twice and was closed again by an admitted probe
C34_Witness ==
    /\ breakers["A"].state = CLOSED
    /\ breakers["A"].total_failures > cfg.failure_threshold
    /\ breakers["A"].total_successes >= 1
    /\ breakers["A"].trip_count = 0
    /\ cb_call.op = "record_success"
    /\ cb_call.from = HALF_OPEN

\* ---------------------------------------------------------------- claim C35
\* C35: while an address stays queued, no queue operation lowers its
\* query_attempts, and the counter changes only by +1, in record_not_found.
C35_AttemptsNeverDecrease ==
    [][\A a \in DOMAIN queue \cap DOMAIN queue' :
          /\ queue'[a].query_attempts >= queue[a].query_attempts
          /\ queue'[a].query_attempts # queue[a].query_attempts =>
                /\ q_call'.op = "record_not_found"
                /\ queue'[a].query_attempts = queue[a].query_attempts + 1]_vars

\* ---------------------------------------------------------------- claim C36
\* not-found outcomes the crawler recorded for address a
NotFoundOutcomes(a) ==
    Cardinality({k \in DOMAIN activity_log :
                    activity_log[k].icao24 = a /\ activity_log[k].status = "not_found"})

\* C36: an address that was purged at the attempt cap and has no metadata
\* record is not queued again by a later update cycle, so the not-found
\* outcomes spent on an aircraft without record never exceed the cap.
C36_PurgedStaysOut ==
    /\ [][\A a \in Addrs :
             (a \notin DOMAIN queue /\ a \in DOMAIN queue' /\ a \notin DOMAIN aircraft_db) =>
                NotFoundOutcomes(a) < cfg.max_attempts]_vars
    /\ [](\A a \in Addrs :
             a \notin DOMAIN aircraft_db => NotFoundOutcomes(a) <= cfg.max_attempts)

\* ---------------------------------------------------------------- claim C37
\* C37: with one or more clients connected to the live positions stream, the
\* position broadcast of one update cycle puts exactly one positions message,
\* carrying the cycle's flights, into the queue of each connected client.
C37_OneMessagePerClient ==
    [][(\E c \in DOMAIN active_connections \cap DOMAIN active_connections' :
           Len(active_connections'[c]) > Len(active_connections[c])) =>
         \A c \in DOMAIN active_connections :
            active_connections'[c] =
               Append(active_connections[c], sse_out'.positions.flights)]_vars

\* ---------------------------------------------------------------- claim C38
\* C38: a callback registered or unregistered while the updater iterates the
\* callback set does not make the position broadcast fail, every callback
\* registered before and after the broadcast is called in it, and the category
\* and callsign changes of the cycle are still broadcast.
C38_RegistrationDuringBroadcast ==
    [][\A t \in NotifyThreads :
         (EnrichStep(t) /\ sse_callbacks # {} /\ pm_changes' # {}
            /\ get_cached_flights(pos_cache', Addrs) \cap pm_changes' # {}
            /\ sse_out'.positions.n > 0) =>
            LET stayed == sse_callbacks \cap sse_callbacks'
            IN  /\ upd_error' = NoError
                /\ stayed \subseteq sse_out'.positions.invoked
                /\ (DOMAIN pm_category_changes' # {}
                    /\ \E cb \in stayed : iscoroutinefunction(cb)) =>
                      sse_out'.categories.n > 0
                /\ (DOMAIN pm_callsign_changes' # {}
                    /\ \E cb \in stayed : iscoroutinefunction(cb)) =>
                      sse_out'.callsigns.n > 0]_vars

\* ---------------------------------------------------------------- claim C39
\* C39: the flights of a published position notification all belong to the
\* cycle's changed-flight set.
C39_OnlyChangedFlightsPublished ==
    [][\A t \in NotifyThreads :
         (EnrichStep(t) /\ sse_out'.positions.n > 0) =>
            sse_out'.positions.flights \subseteq pm_changes']_vars

\* ---------------------------------------------------------------- claim C40
\* the index in the input of the first position of group j
RECURSIVE GroupStart(_, _)
GroupStart(groups, j) ==
    IF j = 1 THEN 1 ELSE GroupStart(groups, j - 1) + Len(groups[j - 1])

\* C40: the groups of split_flights are non-empty slices of the input that
\* follow one another without gap or overlap, from the first position to the
\* last, so that their concatenation is the input; an empty input gives no
\* group and a non-empty input at least one.
C40_GroupsPartitionInput ==
    split_call.done =>
        LET positions == split_call.positions
            groups == split_call.flights
            n == Len(groups)
        IN  /\ (positions = <<>>) <=> (groups = <<>>)
            /\ n <= Len(positions)
            /\ \A j \in 1..n :
                  /\ Len(groups[j]) >= 1
                  /\ groups[j] = SubSeq(positions, GroupStart(groups, j),
                                        GroupStart(groups, j) + Len(groups[j]) - 1)
            /\ n >= 1 => GroupStart(groups, n) + Len(groups[n]) - 1 = Len(positions)
            /\ Flatten(groups) = positions

\* three positions, the first of another flight than the two after it: a
\* group of one position followed by a group of two
C40_Witness ==
    /\ split_call.done
    /\ Len(split_call.positions) = 3
    /\ split_call.positions[1].flight_id # split_call.positions[2].flight_id
    /\ Len(split_call.flights) = 2
    /\ Len(split_call.flights[1]) = 1
    /\ split_call.flights[2] = SubSeq(split_call.positions, 2, 3)
====
